---- MODULE Spec2Model ----
(***************************************************************************)
(* Model of the StreamWatch background service worker: the source-page     *)
(* registry (videoSourceMap) and the page-scan orchestrator of             *)
(* src/src/background/messageHandler.ts, with the context-menu entry of    *)
(* src/src/background/contextMenu.ts; and of the episode parser of         *)
(* src/src/lib/episodeParser.ts, whose functions are pure: a call of one   *)
(* is the variable call, drawn by the initial predicate and completed by   *)
(* the action of the function.                                             *)
(*                                                                         *)
(* Strings that the code inspects (URLs) are sequences of one-character    *)
(* strings, so that parsing, suffix tests and equality are computed.       *)
(* An optional value (x?: T, T | undefined) is a set with zero or one      *)
(* element.  The timestamp of a registry record (Date.now()) is written    *)
(* and echoed by GET_VIDEO_SOURCE but never read by any handler; records   *)
(* are modelled without it.                                                *)
(***************************************************************************)
EXTENDS Integers, Sequences, FiniteSets, TLC

VARIABLES
    videoSourceMap,   \* messageHandler.ts:4, the registry: videoUrl -> record
    tabs,             \* the browser's open tabs, in chrome.tabs.query order
    nextTabId,        \* the id the browser gives to the next created tab
    scans,            \* one record per SCAN_SOURCE_PAGE request
    lastRegistered,   \* history: arguments of the latest registration per key
    getResponse,      \* the latest GET_VIDEO_SOURCE request and the object given to its sendResponse
    call              \* one call of a function of src/src/lib/episodeParser.ts: its arguments and what it gave back

vars == <<videoSourceMap, tabs, nextTabId, scans, lastRegistered, getResponse, call>>

\* no function of the episode parser has been called
NoCall == [fn |-> "none"]

-----------------------------------------------------------------------------
(* Bounds *)

\* number of tabs open when the service worker starts
MaxTabs == 2
\* number of tabs chrome.tabs.create may add
MaxCreated == 1

-----------------------------------------------------------------------------
(* Optional values and strings *)

None == {}
Some(x) == {x}
The(o) == CHOOSE x \in o : TRUE

\* JavaScript truthiness of an optional number: undefined and 0 are falsy
TruthyNum(o) == o # None /\ o # Some(0)
\* JavaScript truthiness of an optional string: undefined and "" are falsy
TruthyStr(o) == o # None /\ o # Some(<<>>)
\* a || b
OrElse(a, b, truthy) == IF truthy THEN a ELSE b

EndsWith(s, suffix) ==
    /\ Len(suffix) <= Len(s)
    /\ SubSeq(s, Len(s) - Len(suffix) + 1, Len(s)) = suffix

\* the URLs of the model
U_bp   == <<"h", ":", "/", "/", "b", "/", "p">>
U_abp  == <<"h", ":", "/", "/", "a", ".", "b", "/", "p">>
U_abq  == <<"h", ":", "/", "/", "a", ".", "b", "/", "q">>
U_gabp == <<"g", ":", "/", "/", "a", ".", "b", "/", "p">>
U_xbp  == <<"h", ":", "/", "/", "a", "b", "/", "p">>
V_b    == <<"h", ":", "/", "/", "b", "/", "v">>
BadUrl == <<"b", "/", "v">>
PlayerPage == <<"e", ":", "/", "/", "i", "/", "x">>

-----------------------------------------------------------------------------
(* new URL(s): scheme "://" host path.  Anything else throws TypeError. *)

FirstIndex(s, c, from) ==
    IF \E i \in from..Len(s) : s[i] = c
    THEN CHOOSE i \in from..Len(s) : s[i] = c /\ \A j \in from..(i - 1) : s[j] # c
    ELSE 0

URLValid(s) ==
    LET c == FirstIndex(s, ":", 1) IN
    /\ c >= 2
    /\ \A i \in 1..(c - 1) : s[i] \notin {"/", "."}
    /\ Len(s) >= c + 3
    /\ s[c + 1] = "/" /\ s[c + 2] = "/"
    /\ s[c + 3] # "/"

\* the parsed URL object; only defined when URLValid(s)
URLParse(s) ==
    LET c == FirstIndex(s, ":", 1)
        slash == FirstIndex(s, "/", c + 3)
        hostEnd == IF slash = 0 THEN Len(s) ELSE slash - 1
        \* the path ends where the query or the fragment begins
        after == {i \in (slash + 1)..Len(s) : s[i] \in {"?", "#"}}
        pathEnd == IF after = {} THEN Len(s) ELSE (CHOOSE i \in after : \A j \in after : i <= j) - 1
    IN [ protocol |-> SubSeq(s, 1, c),
         hostname |-> SubSeq(s, c + 3, hostEnd),
         pathname |-> IF slash = 0 THEN <<"/">> ELSE SubSeq(s, slash, pathEnd),
         origin   |-> SubSeq(s, 1, hostEnd) ]

-----------------------------------------------------------------------------
(* The registry *)

Put(m, k, v) == [x \in (DOMAIN m) \cup {k} |-> IF x = k THEN v ELSE m[x]]

EmptyMap == [x \in {} |-> 0]

\* videoSourceMap.set(videoUrl, {sourceUrl, sourceTabId, ...})
registerVideoSource(m, videoUrl, sourceUrl, sourceTabId) ==
    Put(m, videoUrl, [sourceUrl |-> sourceUrl, sourceTabId |-> sourceTabId])

\* variant of setRegisteredSource that merges into the record it replaces:
\* a registration without a tab id keeps the tab id registered before
setRegisteredSourceMerging(m, payload) ==
    Put(m, payload.videoUrl,
        [sourceUrl |-> payload.sourceUrl,
         sourceTabId |-> IF payload.sourceTabId = None /\ payload.videoUrl \in DOMAIN m
                         THEN m[payload.videoUrl].sourceTabId
                         ELSE payload.sourceTabId])

\* handleRegisterVideoSource: the record it stores
setRegisteredSource(m, payload) ==
    Put(m, payload.videoUrl,
        [sourceUrl |-> payload.sourceUrl, sourceTabId |-> payload.sourceTabId])

\* handlePlayVideo: sourceUrl = payload.sourceUrl || sender.tab?.url
playSourceUrl(payload, senderTab) ==
    OrElse(payload.sourceUrl,
           IF senderTab = None THEN None ELSE The(senderTab).url,
           TruthyStr(payload.sourceUrl))

\* handlePlayVideo: sourceTabId = payload.sourceTabId || sender.tab?.id
playSourceTabId(payload, senderTab) ==
    OrElse(payload.sourceTabId,
           IF senderTab = None THEN None ELSE Some(The(senderTab).id),
           TruthyNum(payload.sourceTabId))

\* variant of setPlayedSource that keeps the played video's record alone
setPlayedSourceAlone(m, payload, senderTab) ==
    IF TruthyStr(playSourceUrl(payload, senderTab))
    THEN Put(EmptyMap, payload.url,
             [sourceUrl |-> The(playSourceUrl(payload, senderTab)),
              sourceTabId |-> playSourceTabId(payload, senderTab)])
    ELSE m

\* handlePlayVideo: if (sourceUrl) videoSourceMap.set(payload.url, ...)
setPlayedSource(m, payload, senderTab) ==
    IF TruthyStr(playSourceUrl(payload, senderTab))
    THEN Put(m, payload.url,
             [sourceUrl |-> The(playSourceUrl(payload, senderTab)),
              sourceTabId |-> playSourceTabId(payload, senderTab)])
    ELSE m

\* openInPlayer: if (sourceTab?.url) registerVideoSource(videoUrl, sourceTab.url, sourceTab.id)
setOpenedSource(m, videoUrl, sourceTab) ==
    IF sourceTab # None /\ TruthyStr(The(sourceTab).url)
    THEN registerVideoSource(m, videoUrl, The(The(sourceTab).url), Some(The(sourceTab).id))
    ELSE m

\* handleGetVideoSource: the object given to sendResponse
getVideoSourceResponse(m, payload) ==
    IF payload.videoUrl \in DOMAIN m
    THEN [success |-> TRUE,
          sourceUrl |-> Some(m[payload.videoUrl].sourceUrl),
          sourceTabId |-> m[payload.videoUrl].sourceTabId,
          error |-> None]
    ELSE [success |-> FALSE, sourceUrl |-> None, sourceTabId |-> None,
          error |-> Some("Source not found")]

\* history of registrations: what the latest registration of a key was given,
\* and what the one before it was given
Remember(h, videoUrl, sourceUrl, sourceTabId) ==
    Put(h, videoUrl,
        [sourceUrl |-> sourceUrl, sourceTabId |-> sourceTabId,
         previousTabId |-> IF videoUrl \in DOMAIN h
                           THEN Some(h[videoUrl].sourceTabId)
                           ELSE None])

-----------------------------------------------------------------------------
(* Inputs *)

VideoUrls == {V_b, BadUrl}
SourceUrls == {U_abq, BadUrl}
TabUrls == {U_bp, U_abp, U_abq, U_gabp, U_xbp}
TabIdInputs == {None, Some(0), Some(1)}

\* a tab as chrome.tabs reports it; url is absent without the host permission,
\* href is the location of the page itself
PageTabs(id) ==
    {[id |-> id, url |-> Some(u), href |-> u] : u \in TabUrls}
        \cup {[id |-> id, url |-> None, href |-> U_abp]}

OpenTabOpts == {None} \cup {Some(tabs[i]) : i \in 1..Len(tabs)}

RegisterPayloads ==
    [videoUrl : VideoUrls, sourceUrl : SourceUrls, sourceTabId : TabIdInputs]

PlayPayloads ==
    [url : {V_b}, sourceUrl : {None, Some(<<>>), Some(U_abq)}, sourceTabId : {None, Some(0)}]

MenuInfos ==
    [linkUrl : {None, Some(<<>>), Some(V_b)}, menuItemId : {"streamwatch_play", "streamwatch_download", "other"}]

-----------------------------------------------------------------------------
(* Registry operations *)

\* chrome.tabs.create({url: playerUrl, active: true})
createTab ==
    /\ nextTabId < MaxTabs + MaxCreated
    /\ tabs' = Append(tabs, [id |-> nextTabId, url |-> Some(PlayerPage), href |-> PlayerPage])
    /\ nextTabId' = nextTabId + 1

handleRegisterVideoSource(payload) ==
    /\ videoSourceMap' = setRegisteredSource(videoSourceMap, payload)
    /\ lastRegistered' = Remember(lastRegistered, payload.videoUrl, payload.sourceUrl, payload.sourceTabId)
    /\ UNCHANGED <<tabs, nextTabId, scans, getResponse, call>>

handlePlayVideo(payload, senderTab) ==
    /\ videoSourceMap' = setPlayedSource(videoSourceMap, payload, senderTab)
    /\ lastRegistered' =
         IF TruthyStr(playSourceUrl(payload, senderTab))
         THEN Remember(lastRegistered, payload.url, The(playSourceUrl(payload, senderTab)),
                       playSourceTabId(payload, senderTab))
         ELSE lastRegistered
    /\ createTab
    /\ UNCHANGED <<scans, getResponse, call>>

\* handleContextMenuClick -> openInPlayer | downloadVideo
handleContextMenuClick(info, tab) ==
    /\ TruthyStr(info.linkUrl)
    /\ IF info.menuItemId = "streamwatch_play"
       THEN /\ videoSourceMap' = setOpenedSource(videoSourceMap, The(info.linkUrl), tab)
            /\ lastRegistered' =
                 IF tab # None /\ TruthyStr(The(tab).url)
                 THEN Remember(lastRegistered, The(info.linkUrl), The(The(tab).url), Some(The(tab).id))
                 ELSE lastRegistered
            /\ createTab
       ELSE UNCHANGED <<videoSourceMap, lastRegistered, tabs, nextTabId>>
    /\ UNCHANGED <<scans, getResponse, call>>

handleGetVideoSource(payload) ==
    /\ getResponse' = Some([videoUrl |-> payload.videoUrl,
                             response |-> getVideoSourceResponse(videoSourceMap, payload)])
    /\ UNCHANGED <<videoSourceMap, tabs, nextTabId, scans, lastRegistered, call>>

-----------------------------------------------------------------------------
(* The environment *)

\* the user closes a tab
CloseTab(i) ==
    /\ i \in 1..Len(tabs)
    /\ tabs' = SubSeq(tabs, 1, i - 1) \o SubSeq(tabs, i + 1, Len(tabs))
    /\ UNCHANGED <<videoSourceMap, nextTabId, scans, lastRegistered, getResponse, call>>

-----------------------------------------------------------------------------
(* The page-scan orchestrator.  A scan is the closure state of one         *)
(* SCAN_SOURCE_PAGE request: pc names the host callback it is waiting for, *)
(* calls lists the host calls it made and the outcome each callback        *)
(* reported, answer is the object the target tab answered with, responses  *)
(* lists the objects it gave to sendResponse.                              *)

NoTabMessage == "No tab with id"
NoReceiverMessage == "Could not establish connection. Receiving end does not exist."
CannotAccessMessage == "Cannot access contents of the page"

IdleScan ==
    [pc |-> "idle", videoUrl |-> <<>>, source |-> None, sourceUrl |-> None,
     tabId |-> None, seen |-> None, calls |-> <<>>, answer |-> None, responses |-> <<>>]

Call(op, tab) == [op |-> op, tab |-> tab, outcome |-> "called", error |-> None]
Outcome(op, tab, err) ==
    [op |-> op, tab |-> tab, outcome |-> IF err = None THEN "ok" ELSE "error", error |-> err]

\* the request was handled; the scan has ended
Started(sc) == sc.pc # "idle"
Finished(sc) == sc.pc \in {"done", "thrown"}

\* an exception leaves the handler or the callback: nothing more happens
Throw(sc) == [sc EXCEPT !.pc = "thrown"]

\* sendResponse(r)
Respond(sc, r) == [sc EXCEPT !.pc = "done", !.responses = Append(@, r)]

\* variant of SuccessResponse that passes on the link list alone
SuccessResponseLinksOnly(videoUrl, response) ==
    [success |-> TRUE,
     videoUrl |-> videoUrl,
     error |-> None,
     sourceUrl |-> None,
     currentUrl |-> None,
     allLinks |-> Some(response.allLinks),
     pageUrl |-> None,
     pageTitle |-> None]

\* {success: true, videoUrl, ...response}
SuccessResponse(videoUrl, response) ==
    [success |-> response.success,
     videoUrl |-> videoUrl,
     error |-> None,
     sourceUrl |-> None,
     currentUrl |-> Some(response.currentUrl),
     allLinks |-> Some(response.allLinks),
     pageUrl |-> Some(response.pageUrl),
     pageTitle |-> Some(response.pageTitle)]

\* variant of FailureResponse that reports the source page in place of the video
FailureResponseOfSource(videoUrl, error, sourceUrl) ==
    [success |-> FALSE,
     videoUrl |-> IF sourceUrl # None THEN The(sourceUrl) ELSE videoUrl,
     error |-> Some(error),
     sourceUrl |-> sourceUrl,
     currentUrl |-> None, allLinks |-> None, pageUrl |-> None, pageTitle |-> None]

\* {success: false, error, videoUrl} and, for findAndScanTab, sourceUrl
FailureResponse(videoUrl, error, sourceUrl) ==
    [success |-> FALSE,
     videoUrl |-> videoUrl,
     error |-> Some(error),
     sourceUrl |-> sourceUrl,
     currentUrl |-> None, allLinks |-> None, pageUrl |-> None, pageTitle |-> None]

\* the in-page detector's answer to SCAN_FOR_EPISODES
DetectorResponse(tab, currentUrl, links) ==
    [success |-> TRUE, currentUrl |-> currentUrl, allLinks |-> links,
     pageUrl |-> tab.href, pageTitle |-> "title"]

\* what a page may link to
LinkLists == {<<>>, <<V_b>>}

\* scanTabForVideos: chrome.tabs.sendMessage(tabId, SCAN_FOR_EPISODES, callback)
scanTabForVideos(sc, tabId) ==
    [sc EXCEPT !.pc = "sendMessage", !.tabId = Some(tabId),
               !.calls = Append(@, Call("sendMessage", Some(tabId)))]

\* injectContentScriptAndScan: chrome.scripting.executeScript(..., callback)
injectContentScriptAndScan(sc, tabId) ==
    [sc EXCEPT !.pc = "executeScript",
               !.calls = Append(@, Call("executeScript", Some(tabId)))]

\* variant of onSendMessage that reports the failed send before it injects
onSendMessageRespondingFirst(sc, err, response) ==
    LET seenIt == [sc EXCEPT !.calls = Append(@, Outcome("sendMessage", sc.tabId, err)),
                             !.answer = IF err = None THEN Some(response) ELSE None] IN
    IF err # None
    THEN injectContentScriptAndScan(
             [seenIt EXCEPT !.responses =
                 Append(@, FailureResponse(sc.videoUrl, <<The(err)>>, None))],
             The(sc.tabId))
    ELSE Respond(seenIt, SuccessResponse(sc.videoUrl, response))

\* scanTabForVideos, the sendMessage callback
onSendMessage(sc, err, response) ==
    LET seenIt == [sc EXCEPT !.calls = Append(@, Outcome("sendMessage", sc.tabId, err)),
                             !.answer = IF err = None THEN Some(response) ELSE None] IN
    IF err # None
    THEN injectContentScriptAndScan(seenIt, The(sc.tabId))
    ELSE Respond(seenIt, SuccessResponse(sc.videoUrl, response))

\* variant of onExecuteScript that does not test chrome.runtime.lastError
onExecuteScriptUnchecked(sc, err) ==
    [sc EXCEPT !.pc = "setTimeout",
               !.calls = Append(Append(@, Outcome("executeScript", sc.tabId, err)),
                                Call("setTimeout", None))]

\* injectContentScriptAndScan, the executeScript callback
onExecuteScript(sc, err) ==
    LET seenIt == [sc EXCEPT !.calls = Append(@, Outcome("executeScript", sc.tabId, err))] IN
    IF err # None
    THEN Respond(seenIt,
                 FailureResponse(sc.videoUrl,
                                 <<"Failed to inject content script: ", The(err)>>, None))
    ELSE [seenIt EXCEPT !.pc = "setTimeout",
                        !.calls = Append(@, Call("setTimeout", None))]

\* injectContentScriptAndScan, the setTimeout callback
onTimeout(sc) ==
    [sc EXCEPT !.pc = "retry",
               !.calls = Append(Append(@, Outcome("setTimeout", None, None)),
                                Call("sendMessage", sc.tabId))]

\* variant of onRetry that injects again when the retry fails
onRetryInjectingAgain(sc, err, response) ==
    LET seenIt == [sc EXCEPT !.calls = Append(@, Outcome("sendMessage", sc.tabId, err)),
                             !.answer = IF err = None THEN Some(response) ELSE None] IN
    IF err # None
    THEN injectContentScriptAndScan(seenIt, The(sc.tabId))
    ELSE Respond(seenIt, SuccessResponse(sc.videoUrl, response))

\* injectContentScriptAndScan, the callback of the second sendMessage
onRetry(sc, err, response) ==
    LET seenIt == [sc EXCEPT !.calls = Append(@, Outcome("sendMessage", sc.tabId, err)),
                             !.answer = IF err = None THEN Some(response) ELSE None] IN
    IF err # None
    THEN Respond(seenIt, FailureResponse(sc.videoUrl, <<The(err)>>, None))
    ELSE Respond(seenIt, SuccessResponse(sc.videoUrl, response))

\* variant of isCandidateTab whose suffix test lacks the "."
isCandidateTabBySuffix(tab, videoDomain) ==
    /\ TruthyStr(tab.url)
    /\ URLValid(The(tab.url))
    /\ EndsWith(URLParse(The(tab.url)).hostname, videoDomain)

\* handleScanSourcePage, the filter of the hostname search
isCandidateTab(tab, videoDomain) ==
    /\ TruthyStr(tab.url)
    /\ URLValid(The(tab.url))
    /\ \/ URLParse(The(tab.url)).hostname = videoDomain
       \/ EndsWith(URLParse(The(tab.url)).hostname, <<".">> \o videoDomain)

\* findAndScanTab, the filter of the origin search
isMatchingTab(tab, sourceUrl) ==
    /\ TruthyStr(tab.url)
    /\ URLValid(The(tab.url))
    /\ URLParse(The(tab.url)).origin = URLParse(sourceUrl).origin

\* Array.prototype.find: the first element among those at the indices found, if any
Find(seq, found) ==
    IF found # {}
    THEN Some(seq[CHOOSE i \in found : \A j \in found : i <= j])
    ELSE None

\* variant of targetTab without the preference for the exact URL
targetTabFirst(matchingTabs, sourceUrl) == matchingTabs[1]

\* findAndScanTab: exactMatch || matchingTabs[0]
targetTab(matchingTabs, sourceUrl) ==
    LET exactMatch == Find(matchingTabs,
                           {i \in 1..Len(matchingTabs) : matchingTabs[i].url = Some(sourceUrl)}) IN
    IF exactMatch # None THEN The(exactMatch) ELSE matchingTabs[1]

\* findAndScanTab: new URL(sourceUrl), then chrome.tabs.query({}, callback)
findAndScanTab(sc, sourceUrl) ==
    IF ~URLValid(sourceUrl)
    THEN Throw(sc)
    ELSE [sc EXCEPT !.pc = "tabs.query.origin", !.sourceUrl = Some(sourceUrl),
                    !.calls = Append(@, Call("tabs.query", None))]

\* findAndScanTab, the tabs.query callback
onQueryOrigin(sc, allTabs) ==
    LET matchingTabs == SelectSeq(allTabs, LAMBDA t : isMatchingTab(t, The(sc.sourceUrl)))
        seenIt == [sc EXCEPT !.seen = Some(allTabs),
                             !.calls = Append(@, Outcome("tabs.query", None, None))]
    IN IF Len(matchingTabs) > 0
       THEN scanTabForVideos(seenIt, targetTab(matchingTabs, The(sc.sourceUrl)).id)
       ELSE Respond(seenIt,
                    FailureResponse(sc.videoUrl, <<"Source tab not found">>, sc.sourceUrl))

\* handleScanSourcePage, the tabs.query callback of the hostname search
onQueryHostname(sc, allTabs) ==
    LET videoDomain == URLParse(sc.videoUrl).hostname
        candidateTabs == SelectSeq(allTabs, LAMBDA t : isCandidateTab(t, videoDomain))
        seenIt == [sc EXCEPT !.seen = Some(allTabs),
                             !.calls = Append(@, Outcome("tabs.query", None, None))]
    IN IF Len(candidateTabs) > 0
       THEN scanTabForVideos(seenIt, candidateTabs[1].id)
       ELSE Respond(seenIt, FailureResponse(sc.videoUrl, <<"No source page found">>, None))

\* variant of onGetTab that gives up when the registered tab is gone
onGetTabOnly(sc, tab) ==
    LET sourceTabId == The(sc.source).sourceTabId
        seenIt == [sc EXCEPT !.calls = Append(@,
                      Outcome("tabs.get", sourceTabId,
                              IF tab = None THEN Some(NoTabMessage) ELSE None))]
    IN IF tab = None
       THEN Respond(seenIt, FailureResponse(sc.videoUrl, <<"Source tab not found">>,
                                            Some(The(sc.source).sourceUrl)))
       ELSE scanTabForVideos(seenIt, The(sourceTabId))

\* handleScanSourcePage, the tabs.get callback: tab is absent with lastError set
onGetTab(sc, tab) ==
    LET sourceTabId == The(sc.source).sourceTabId
        seenIt == [sc EXCEPT !.calls = Append(@,
                      Outcome("tabs.get", sourceTabId,
                              IF tab = None THEN Some(NoTabMessage) ELSE None))]
    IN IF tab = None
       THEN findAndScanTab(seenIt, The(sc.source).sourceUrl)
       ELSE scanTabForVideos(seenIt, The(sourceTabId))

\* handleScanSourcePage: if (source.sourceTabId)
hasSourceTabId(source) == TruthyNum(source.sourceTabId)

\* handleScanSourcePage, the synchronous part
startScan(m, videoUrl) ==
    LET source == IF videoUrl \in DOMAIN m THEN Some(m[videoUrl]) ELSE None
        sc == [IdleScan EXCEPT !.videoUrl = videoUrl, !.source = source]
    IN IF source = None
       THEN IF ~URLValid(videoUrl)
            THEN Throw(sc)
            ELSE [sc EXCEPT !.pc = "tabs.query.hostname",
                            !.calls = Append(@, Call("tabs.query", None))]
       ELSE IF hasSourceTabId(The(source))
            THEN [sc EXCEPT !.pc = "tabs.get",
                            !.calls = Append(@, Call("tabs.get", The(source).sourceTabId))]
            ELSE findAndScanTab(sc, The(source).sourceUrl)

-----------------------------------------------------------------------------
(* Scan actions: the request and the host callbacks *)

\* chrome.tabs.get(id): the open tab with this id, if any
OpenTab(id) == Find(tabs, {i \in 1..Len(tabs) : tabs[i].id = id})

Others == <<videoSourceMap, tabs, nextTabId, lastRegistered, getResponse, call>>

\* a scan that waits for a host callback
InFlight(sc) == Started(sc) /\ ~Finished(sc)

\* variant of handleScanSourcePage that attaches a request to a scan of the
\* same videoUrl already in flight in place of resolving a tab itself
handleScanSourcePageShared(s, payload) ==
    /\ scans[s].pc = "idle"
    /\ scans' = [scans EXCEPT ![s] =
          IF \E t \in DOMAIN scans \ {s} : InFlight(scans[t]) /\ scans[t].videoUrl = payload.videoUrl
          THEN [IdleScan EXCEPT !.pc = "shared", !.videoUrl = payload.videoUrl]
          ELSE startScan(videoSourceMap, payload.videoUrl)]
    /\ UNCHANGED Others

handleScanSourcePage(s, payload) ==
    /\ scans[s].pc = "idle"
    /\ scans' = [scans EXCEPT ![s] = startScan(videoSourceMap, payload.videoUrl)]
    /\ UNCHANGED Others

\* variant of TabsGetCallback that forgets the record of a tab that is gone
TabsGetCallbackForgetting(s) ==
    /\ scans[s].pc = "tabs.get"
    /\ scans' = [scans EXCEPT ![s] = onGetTab(@, OpenTab(The(The(@.source).sourceTabId)))]
    /\ videoSourceMap' =
         IF OpenTab(The(The(scans[s].source).sourceTabId)) = None
         THEN [k \in DOMAIN videoSourceMap \ {scans[s].videoUrl} |-> videoSourceMap[k]]
         ELSE videoSourceMap
    /\ UNCHANGED <<tabs, nextTabId, lastRegistered, getResponse, call>>

\* variant of TabsGetCallback whose fallback searches for the sourceUrl the
\* registry holds when the callback runs
TabsGetCallbackRereading(s) ==
    /\ scans[s].pc = "tabs.get"
    /\ LET sc == scans[s]
           sourceTabId == The(sc.source).sourceTabId
           tab == OpenTab(The(sourceTabId))
           seenIt == [sc EXCEPT !.calls = Append(@,
                         Outcome("tabs.get", sourceTabId,
                                 IF tab = None THEN Some(NoTabMessage) ELSE None))]
       IN scans' = [scans EXCEPT ![s] =
             IF tab = None
             THEN findAndScanTab(seenIt, videoSourceMap[sc.videoUrl].sourceUrl)
             ELSE scanTabForVideos(seenIt, The(sourceTabId))]
    /\ UNCHANGED Others

TabsGetCallback(s) ==
    /\ scans[s].pc = "tabs.get"
    /\ scans' = [scans EXCEPT ![s] = onGetTab(@, OpenTab(The(The(@.source).sourceTabId)))]
    /\ UNCHANGED Others

TabsQueryHostnameCallback(s) ==
    /\ scans[s].pc = "tabs.query.hostname"
    /\ scans' = [scans EXCEPT ![s] = onQueryHostname(@, tabs)]
    /\ UNCHANGED Others

TabsQueryOriginCallback(s) ==
    /\ scans[s].pc = "tabs.query.origin"
    /\ scans' = [scans EXCEPT ![s] = onQueryOrigin(@, tabs)]
    /\ UNCHANGED Others

\* the outcomes the host can report for a message sent to tab id: an error when
\* the tab is gone or nothing listens in it, else the detector's answer
SendOutcomes(id, currentUrl) ==
    IF OpenTab(id) = None
    THEN {[err |-> Some(NoTabMessage), response |-> DetectorResponse([href |-> <<>>], currentUrl, <<>>)]}
    ELSE {[err |-> Some(NoReceiverMessage), response |-> DetectorResponse([href |-> <<>>], currentUrl, <<>>)]}
         \cup {[err |-> None, response |-> DetectorResponse(The(OpenTab(id)), currentUrl, links)] :
                 links \in LinkLists}

\* the outcomes the host can report for an injection into tab id
InjectOutcomes(id) ==
    IF OpenTab(id) = None
    THEN {Some(NoTabMessage)}
    ELSE {Some(CannotAccessMessage), None}

SendMessageCallback(s) ==
    /\ scans[s].pc = "sendMessage"
    /\ \E o \in SendOutcomes(The(scans[s].tabId), scans[s].videoUrl) :
         scans' = [scans EXCEPT ![s] = onSendMessage(@, o.err, o.response)]
    /\ UNCHANGED Others

ExecuteScriptCallback(s) ==
    /\ scans[s].pc = "executeScript"
    /\ \E err \in InjectOutcomes(The(scans[s].tabId)) :
         scans' = [scans EXCEPT ![s] = onExecuteScript(@, err)]
    /\ UNCHANGED Others

TimeoutCallback(s) ==
    /\ scans[s].pc = "setTimeout"
    /\ scans' = [scans EXCEPT ![s] = onTimeout(@)]
    /\ UNCHANGED Others

RetryCallback(s) ==
    /\ scans[s].pc = "retry"
    /\ \E o \in SendOutcomes(The(scans[s].tabId), scans[s].videoUrl) :
         scans' = [scans EXCEPT ![s] = onRetry(@, o.err, o.response)]
    /\ UNCHANGED Others

-----------------------------------------------------------------------------
(* Specifications *)

ScanIds == {1, 2}

InitWith(tabOptions) ==
    /\ videoSourceMap = EmptyMap
    /\ tabs \in {t \in [1..MaxTabs -> UNION {PageTabs(i) : i \in 0..(MaxTabs - 1)}] :
                   \A i \in 1..MaxTabs : t[i].id = i - 1 /\ t[i].url \in tabOptions}
    /\ nextTabId = MaxTabs
    /\ scans = [s \in ScanIds |-> IdleScan]
    /\ lastRegistered = EmptyMap
    /\ getResponse = None
    /\ call = NoCall

Init == InitWith({None} \cup {Some(u) : u \in TabUrls})

ScanStep(s, videoUrls) ==
    \/ \E payload \in [videoUrl : videoUrls] : handleScanSourcePage(s, payload)
    \/ TabsGetCallback(s)
    \/ TabsQueryHostnameCallback(s)
    \/ TabsQueryOriginCallback(s)
    \/ SendMessageCallback(s)
    \/ ExecuteScriptCallback(s)
    \/ TimeoutCallback(s)
    \/ RetryCallback(s)

\* one scan at a time, the registry written by REGISTER_VIDEO_SOURCE for one key
Next ==
    \/ \E payload \in {p \in RegisterPayloads : p.videoUrl = V_b} : handleRegisterVideoSource(payload)
    \/ ScanStep(1, VideoUrls)
    \/ \E i \in 1..MaxTabs : CloseTab(i)

Spec == Init /\ [][Next]_vars

\* the registry alone: every writer and the reader
NextRegistry ==
    \/ \E payload \in RegisterPayloads : handleRegisterVideoSource(payload)
    \/ \E payload \in PlayPayloads, senderTab \in OpenTabOpts : handlePlayVideo(payload, senderTab)
    \/ \E info \in MenuInfos, tab \in OpenTabOpts : handleContextMenuClick(info, tab)
    \/ \E payload \in [videoUrl : VideoUrls] : handleGetVideoSource(payload)

SpecRegistry == InitWith({Some(U_abp)}) /\ [][NextRegistry]_vars

\* two requests in flight at once
NextTwo ==
    \/ \E payload \in [videoUrl : {V_b}, sourceUrl : {U_abq}, sourceTabId : {None, Some(1)}] :
         handleRegisterVideoSource(payload)
    \/ \E s \in ScanIds : ScanStep(s, {V_b})
    \/ \E i \in 1..MaxTabs : CloseTab(i)

SpecTwo == InitWith({Some(U_abq)}) /\ [][NextTwo]_vars

\* one request in flight while every writer of the registry runs for its videoUrl
RacePlayPayloads == [url : {V_b}, sourceUrl : {None}, sourceTabId : {None}]
RaceMenuInfos == [linkUrl : {Some(V_b)}, menuItemId : {"streamwatch_play"}]

NextRace ==
    \/ \E payload \in [videoUrl : {V_b}, sourceUrl : {U_gabp}, sourceTabId : {None, Some(1)}] :
         handleRegisterVideoSource(payload)
    \/ \E payload \in RacePlayPayloads, senderTab \in OpenTabOpts : handlePlayVideo(payload, senderTab)
    \/ \E info \in RaceMenuInfos, tab \in OpenTabOpts : handleContextMenuClick(info, tab)
    \/ ScanStep(1, {V_b})
    \/ \E i \in 1..MaxTabs : CloseTab(i)

SpecRace == InitWith({Some(U_abp)}) /\ [][NextRace]_vars

-----------------------------------------------------------------------------
(* Properties of the page-scan orchestrator *)

CallsOf(sc, op) ==
    {i \in 1..Len(sc.calls) : sc.calls[i].op = op /\ sc.calls[i].outcome = "called"}
OutcomesOf(sc, op, outcome) ==
    {i \in 1..Len(sc.calls) : sc.calls[i].op = op /\ sc.calls[i].outcome = outcome}

\* C1: every SCAN_SOURCE_PAGE request, whatever the registry, the tabs and the
\* videoUrl, ends by calling sendResponse: once no host callback is pending
\* the scan has responded, and no branch ends in an uncaught exception.
C1_EveryScanResponds ==
    \A s \in ScanIds :
        Finished(scans[s]) => scans[s].pc = "done" /\ Len(scans[s].responses) >= 1

\* C2: within one scan a failed first SCAN_FOR_EPISODES send is followed by
\* exactly one executeScript and one retry to the same tab, in the order
\* send, error, injection, injection callback, delay, retry; there is never a
\* second injection or a third send, and a failed retry ends the scan with a
\* failure that carries the error message of the retry.
C2_OneInjectionOneRetry ==
    \A s \in ScanIds :
        LET sc == scans[s]
            sends == CallsOf(sc, "sendMessage")
            injects == CallsOf(sc, "executeScript")
            failed == OutcomesOf(sc, "sendMessage", "error")
        IN /\ Cardinality(injects) <= 1
           /\ Cardinality(sends) <= 2
           /\ failed # {} => Cardinality(injects) = 1
           /\ \A i \in injects :
                /\ i - 1 \in failed
                /\ sc.calls[i - 1].tab = sc.calls[i].tab
                /\ Cardinality({j \in sends : j < i}) = 1
                /\ \A j \in sends : j < i => sc.calls[j].tab = sc.calls[i].tab
           /\ \A j \in sends :
                (\E k \in sends : k < j) =>
                    /\ j >= 4
                    /\ sc.calls[j - 1] = Outcome("setTimeout", None, None)
                    /\ sc.calls[j - 2] = Call("setTimeout", None)
                    /\ sc.calls[j - 3] = Outcome("executeScript", sc.calls[j].tab, None)
                    /\ j - 4 \in injects
           /\ Cardinality(failed) = 2 =>
                /\ sc.pc = "done"
                /\ Len(sc.responses) = 1
                /\ ~sc.responses[1].success
                /\ sc.responses[1].error = Some(<<The(sc.calls[Len(sc.calls)].error)>>)
                /\ sc.calls[Len(sc.calls)].op = "sendMessage"

\* a scan whose first send and whose retry both failed
C2_Witness ==
    \E s \in ScanIds :
        /\ Cardinality(OutcomesOf(scans[s], "sendMessage", "error")) = 2
        /\ Cardinality(CallsOf(scans[s], "executeScript")) = 1
        /\ scans[s].pc = "done"

\* C3: when executeScript reports an error the scan responds at once with
\* {success: false, error, videoUrl}; no delay timer is started and no further
\* SCAN_FOR_EPISODES message is sent.
C3_InjectionFailureEndsScan ==
    \A s \in ScanIds :
        LET sc == scans[s] IN
        \A i \in OutcomesOf(sc, "executeScript", "error") :
            /\ i = Len(sc.calls)
            /\ sc.pc = "done"
            /\ Cardinality(CallsOf(sc, "sendMessage")) = 1
            /\ CallsOf(sc, "setTimeout") = {}
            /\ Len(sc.responses) = 1
            /\ ~sc.responses[1].success
            /\ sc.responses[1].videoUrl = sc.videoUrl
            /\ sc.responses[1].error =
                 Some(<<"Failed to inject content script: ", The(sc.calls[i].error)>>)

\* a scan whose injection failed in a tab that is still open
C3_Witness ==
    \E s \in ScanIds :
        /\ OutcomesOf(scans[s], "executeScript", "error") # {}
        /\ OpenTab(The(scans[s].tabId)) # None

SameOrigin(u1, u2) ==
    /\ URLValid(u1) /\ URLValid(u2)
    /\ URLParse(u1).protocol = URLParse(u2).protocol
    /\ URLParse(u1).hostname = URLParse(u2).hostname

SameOriginTabs(allTabs, sourceUrl) ==
    {i \in 1..Len(allTabs) : allTabs[i].url # None /\ SameOrigin(The(allTabs[i].url), sourceUrl)}

\* the scan found its registered tab gone
StaleTab(sc) == OutcomesOf(sc, "tabs.get", "error") # {}

\* C4: a scan whose record names a sourceTabId that no longer exists goes on
\* to the origin search with the record's sourceUrl; when the query shows a
\* tab of that origin the scan messages such a tab, and when the detector
\* answers the response is a success.
C4_StaleTabFallsBack ==
    \A s \in ScanIds :
        LET sc == scans[s] IN
        (/\ sc.source # None
         /\ The(sc.source).sourceTabId # None
         /\ URLValid(The(sc.source).sourceUrl)
         /\ (StaleTab(sc) \/ (Started(sc) /\ The(sc.source).sourceTabId = Some(0)))) =>
            /\ sc.sourceUrl = Some(The(sc.source).sourceUrl)
            /\ \E q \in CallsOf(sc, "tabs.query") : \A j \in 1..(q - 1) : sc.calls[j].op = "tabs.get"
            /\ (sc.seen # None /\ SameOriginTabs(The(sc.seen), The(sc.source).sourceUrl) # {}) =>
                 \E m \in CallsOf(sc, "sendMessage") :
                     \E i \in SameOriginTabs(The(sc.seen), The(sc.source).sourceUrl) :
                         sc.calls[m].tab = Some(The(sc.seen)[i].id)
            /\ (sc.calls[Len(sc.calls)].op = "sendMessage" /\ sc.calls[Len(sc.calls)].outcome = "ok") =>
                 /\ sc.pc = "done"
                 /\ Len(sc.responses) = 1
                 /\ sc.responses[1].success
                 /\ sc.responses[1].videoUrl = sc.videoUrl

\* the registered tab is gone, a tab of the same origin answered
C4_Witness ==
    \E s \in ScanIds :
        /\ StaleTab(scans[s])
        /\ scans[s].pc = "done"
        /\ scans[s].responses[1].success
        /\ scans[s].tabId # The(scans[s].source).sourceTabId

\* hostname h is domain d or a subdomain of it
HostQualifies(h, d) ==
    \/ h = d
    \/ /\ Len(h) > Len(d)
       /\ h[Len(h) - Len(d)] = "."
       /\ \A i \in 1..Len(d) : h[Len(h) - Len(d) + i] = d[i]

QualifyingTabs(allTabs, videoUrl) ==
    {i \in 1..Len(allTabs) :
        /\ allTabs[i].url # None
        /\ URLValid(The(allTabs[i].url))
        /\ HostQualifies(URLParse(The(allTabs[i].url)).hostname, URLParse(videoUrl).hostname)}

\* C5: a scan for a videoUrl without a registry record messages (and injects
\* into) only a tab whose hostname is the videoUrl hostname or ends with "."
\* and that hostname; when the query shows no such tab it responds
\* {success: false, error: "No source page found", videoUrl} and has sent no
\* message and injected nothing.
C5_HostnameSearch ==
    \A s \in ScanIds :
        LET sc == scans[s] IN
        (Started(sc) /\ sc.source = None /\ URLValid(sc.videoUrl)) =>
            /\ \A m \in CallsOf(sc, "sendMessage") \cup CallsOf(sc, "executeScript") :
                 /\ sc.seen # None
                 /\ \E i \in QualifyingTabs(The(sc.seen), sc.videoUrl) :
                        sc.calls[m].tab = Some(The(sc.seen)[i].id)
            /\ (sc.seen # None /\ QualifyingTabs(The(sc.seen), sc.videoUrl) = {}) =>
                 /\ sc.pc = "done"
                 /\ CallsOf(sc, "sendMessage") \cup CallsOf(sc, "executeScript") = {}
                 /\ sc.responses =
                      <<[success |-> FALSE, videoUrl |-> sc.videoUrl,
                         error |-> Some(<<"No source page found">>), sourceUrl |-> None,
                         currentUrl |-> None, allLinks |-> None,
                         pageUrl |-> None, pageTitle |-> None]>>

\* no record, and the only open tabs are on a host that merely ends with the
\* letters of the video host
C5_Witness ==
    \E s \in ScanIds :
        /\ scans[s].source = None
        /\ scans[s].seen # None
        /\ \E i \in 1..Len(The(scans[s].seen)) : The(scans[s].seen)[i].url = Some(U_xbp)
        /\ Len(scans[s].responses) = 1
        /\ scans[s].responses[1].error = Some(<<"No source page found">>)

\* the scan ran the origin search and its tabs.query callback has fired
OriginSearched(sc) == sc.sourceUrl # None /\ sc.seen # None

ExactTabs(allTabs, sourceUrl) ==
    {i \in 1..Len(allTabs) : allTabs[i].url = Some(sourceUrl)}

Least(S) == CHOOSE i \in S : \A j \in S : i <= j

\* C6: the origin search targets a tab whose URL equals the stored sourceUrl
\* when one is open, otherwise the first open tab of sourceUrl's origin; it
\* never targets a tab of another origin, and when no open tab has that
\* origin it responds {success: false, error: "Source tab not found"} and
\* sends no message.
C6_OriginSearch ==
    \A s \in ScanIds :
        LET sc == scans[s]
            src == The(sc.sourceUrl)
            seen == The(sc.seen)
            exact == ExactTabs(seen, src)
            same == SameOriginTabs(seen, src)
        IN OriginSearched(sc) =>
            /\ exact # {} =>
                 /\ sc.tabId # None
                 /\ \E i \in exact : sc.tabId = Some(seen[i].id)
            /\ (exact = {} /\ same # {}) => sc.tabId = Some(seen[Least(same)].id)
            /\ \A m \in CallsOf(sc, "sendMessage") \cup CallsOf(sc, "executeScript") :
                 /\ sc.calls[m].tab = sc.tabId
                 /\ \E i \in same : sc.tabId = Some(seen[i].id)
            /\ same = {} =>
                 /\ sc.pc = "done"
                 /\ sc.tabId = None
                 /\ CallsOf(sc, "sendMessage") \cup CallsOf(sc, "executeScript") = {}
                 /\ Len(sc.responses) = 1
                 /\ ~sc.responses[1].success
                 /\ sc.responses[1].error = Some(<<"Source tab not found">>)

\* an earlier tab of the same origin is passed over for the exact URL
C6_Witness ==
    \E s \in ScanIds :
        /\ OriginSearched(scans[s])
        /\ ExactTabs(The(scans[s].seen), The(scans[s].sourceUrl)) # {}
        /\ Least(SameOriginTabs(The(scans[s].seen), The(scans[s].sourceUrl)))
              \notin ExactTabs(The(scans[s].seen), The(scans[s].sourceUrl))
        /\ CallsOf(scans[s], "sendMessage") # {}

\* C7: a scan whose record has a sourceTabId (any registered integer, 0
\* included) first fetches that tab by id; when the tab exists the
\* SCAN_FOR_EPISODES request goes to exactly that id and no tabs.query is
\* made; the origin search is entered directly only without a sourceTabId.
\* (Stated of the scans that did not end in an exception, which is C1's case.)
C7_StoredTabIdFirst ==
    \A s \in ScanIds :
        LET sc == scans[s] IN
        (Started(sc) /\ sc.source # None /\ sc.pc # "thrown") =>
            /\ The(sc.source).sourceTabId # None =>
                 /\ Len(sc.calls) >= 1
                 /\ sc.calls[1] = Call("tabs.get", The(sc.source).sourceTabId)
                 /\ OutcomesOf(sc, "tabs.get", "ok") # {} =>
                      /\ CallsOf(sc, "tabs.query") = {}
                      /\ \A m \in CallsOf(sc, "sendMessage") :
                             sc.calls[m].tab = The(sc.source).sourceTabId
            /\ (Len(sc.calls) >= 1 /\ sc.calls[1].op = "tabs.query") =>
                 The(sc.source).sourceTabId = None

\* C8: every failure response of a scan is an object with success = false,
\* the videoUrl of the request and an error string, the error being one of
\* "No source page found", "Source tab not found", the injection failure text
\* and the delivery error of the retry.
C8_FailureResponses ==
    \A s \in ScanIds :
        LET sc == scans[s] IN
        \A i \in 1..Len(sc.responses) :
            ~sc.responses[i].success =>
                /\ sc.responses[i].videoUrl = sc.videoUrl
                /\ sc.responses[i].error # None
                /\ \/ The(sc.responses[i].error) \in {<<"No source page found">>, <<"Source tab not found">>}
                   \/ \E m \in {NoTabMessage, NoReceiverMessage, CannotAccessMessage} :
                        The(sc.responses[i].error) \in {<<m>>, <<"Failed to inject content script: ", m>>}

\* the origin search failed for a record whose sourceUrl is not the videoUrl
C8_Witness ==
    \E s \in ScanIds :
        /\ Len(scans[s].responses) = 1
        /\ scans[s].responses[1].error = Some(<<"Source tab not found">>)
        /\ scans[s].sourceUrl # Some(scans[s].videoUrl)

-----------------------------------------------------------------------------
(* Properties of the registry *)

\* C9: GET_VIDEO_SOURCE(videoUrl) answers with success and exactly the
\* sourceUrl and sourceTabId of the latest registration of videoUrl (nothing
\* of the replaced record survives), and with {success: false, error} for a
\* videoUrl that was never registered.
C9_GetReturnsLatestRegistration ==
    [][getResponse' # getResponse =>
        LET videoUrl == The(getResponse').videoUrl
            r == The(getResponse').response
        IN IF videoUrl \in DOMAIN lastRegistered
           THEN /\ r.success
                /\ r.sourceUrl = Some(lastRegistered[videoUrl].sourceUrl)
                /\ r.sourceTabId = lastRegistered[videoUrl].sourceTabId
                /\ r.error = None
           ELSE /\ ~r.success
                /\ r.error # None
                /\ r.sourceUrl = None
                /\ r.sourceTabId = None]_vars

\* GET answered for a key that was re-registered without a tab id after a
\* registration with one
C9_Witness ==
    /\ getResponse # None
    /\ The(getResponse).response.success
    /\ The(getResponse).response.sourceTabId = None
    /\ The(getResponse).videoUrl \in DOMAIN lastRegistered
    /\ lastRegistered[The(getResponse).videoUrl].sourceTabId = None
    /\ lastRegistered[The(getResponse).videoUrl].previousTabId \in {Some(Some(0)), Some(Some(1))}

-----------------------------------------------------------------------------
(* Concurrent scans *)

C10_EachScanItsOwn ==
    \A s \in ScanIds :
        LET sc == scans[s] IN
        (Started(sc) /\ sc.pc # "thrown") =>
            /\ Len(sc.calls) >= 1
            /\ sc.calls[1].op \in {"tabs.get", "tabs.query"}
            /\ sc.pc = "done" =>
                 /\ Len(sc.responses) = 1
                 /\ sc.responses[1].videoUrl = sc.videoUrl
                 /\ sc.responses[1].success =>
                      /\ CallsOf(sc, "sendMessage") # {}
                      /\ sc.calls[Len(sc.calls)] = Outcome("sendMessage", sc.tabId, None)

C10_StepOfOneScan ==
    \A s \in ScanIds :
        scans'[s] # scans[s] =>
            /\ \A t \in ScanIds \ {s} : scans'[t] = scans[t]
            /\ UNCHANGED <<videoSourceMap, tabs>>

C18_SuccessCarriesAnswer ==
    \A s \in ScanIds :
        LET sc == scans[s] IN
        (sc.pc = "done" /\ sc.calls[Len(sc.calls)] = Outcome("sendMessage", sc.tabId, None)) =>
            /\ sc.answer # None
            /\ Len(sc.responses) = 1
            /\ sc.responses[1].success = TRUE
            /\ sc.responses[1].videoUrl = sc.videoUrl
            /\ sc.responses[1].allLinks = Some(The(sc.answer).allLinks)
            /\ sc.responses[1].pageUrl = Some(The(sc.answer).pageUrl)
            /\ sc.responses[1].pageTitle = Some(The(sc.answer).pageTitle)
            /\ sc.responses[1].error = None

\* the first send failed, the retry was answered with one link
C18_Witness ==
    /\ scans[1].pc = "done"
    /\ Cardinality(CallsOf(scans[1], "sendMessage")) = 2
    /\ scans[1].answer # None
    /\ The(scans[1].answer).allLinks = <<V_b>>
    /\ scans[1].responses[1].success

\* C19: handling SCAN_SOURCE_PAGE and every step that follows from it (tab
\* resolution, send, injection, delay, retry) leaves the registry as it was,
\* whether the scan succeeds or fails.
C19_ScanLeavesRegistry ==
    [][(\E s \in ScanIds : scans'[s] # scans[s]) => videoSourceMap' = videoSourceMap]_vars

\* a scan went through a stale tab id, the origin search, an injection and a
\* retry, and the record it started from is still the registry's
C19_Witness ==
    /\ scans[1].pc = "done"
    /\ scans[1].source # None
    /\ OutcomesOf(scans[1], "tabs.get", "error") # {}
    /\ OutcomesOf(scans[1], "executeScript", "ok") # {}
    /\ scans[1].responses[1].success
    /\ scans[1].videoUrl \in DOMAIN videoSourceMap
    /\ videoSourceMap[scans[1].videoUrl] = The(scans[1].source)

\* the video URLs whose record a step writes or adds
WrittenKeys ==
    {k \in DOMAIN videoSourceMap' :
        k \notin DOMAIN videoSourceMap \/ videoSourceMap'[k] # videoSourceMap[k]}

\* the video URLs a step registers
RegisteredKeys ==
    {k \in DOMAIN lastRegistered' :
        k \notin DOMAIN lastRegistered \/ lastRegistered'[k] # lastRegistered[k]}

\* C20: whatever messages and context-menu clicks are handled, a video URL
\* that is in the registry stays in it, and a registration for one video URL
\* changes the record of no other video URL.
C20_EntriesStay ==
    [][/\ DOMAIN videoSourceMap \subseteq DOMAIN videoSourceMap'
       /\ WrittenKeys \subseteq RegisteredKeys
       /\ Cardinality(RegisteredKeys) <= 1]_vars

\* two video URLs are registered; one was registered again, the other's
\* record is the one its only registration stored
C20_Witness ==
    /\ DOMAIN videoSourceMap = {V_b, BadUrl}
    /\ lastRegistered[V_b].previousTabId # None
    /\ lastRegistered[BadUrl].previousTabId = None
    /\ videoSourceMap[BadUrl].sourceUrl = lastRegistered[BadUrl].sourceUrl
    /\ videoSourceMap[BadUrl].sourceTabId = lastRegistered[BadUrl].sourceTabId

\* C27: a SCAN_SOURCE_PAGE request never gets a second sendResponse: on every
\* branch of the tab resolution and on the injection path, with registrations
\* and tab closings interleaved, a scan holds at most one response, giving it
\* is the scan's last step, and a scan that ended makes no further step.
C27_AtMostOneResponse ==
    [][\A s \in ScanIds :
          /\ Len(scans'[s].responses) <= 1
          /\ Len(scans'[s].responses) = 1 => scans'[s].pc = "done"
          /\ Finished(scans[s]) => scans'[s] = scans[s]]_vars

\* the longest path: stale tab id, origin search, failed send, injection,
\* delay, retry, and one response at its end
C27_Witness ==
    LET sc == scans[1] IN
    /\ sc.pc = "done"
    /\ StaleTab(sc)
    /\ OriginSearched(sc)
    /\ Cardinality(CallsOf(sc, "executeScript")) = 1
    /\ Cardinality(CallsOf(sc, "sendMessage")) = 2
    /\ OutcomesOf(sc, "setTimeout", "ok") # {}
    /\ Len(sc.responses) = 1

\* the record the registry holds for a video URL, if any
RegisteredNow(videoUrl) ==
    IF videoUrl \in DOMAIN videoSourceMap THEN Some(videoSourceMap[videoUrl]) ELSE None

\* C28: a scan takes the registry record of its videoUrl when the request is
\* handled and keeps it: no later step, of the scan or of a REGISTER_VIDEO_SOURCE,
\* PLAY_VIDEO or context-menu registration for that videoUrl, changes it, and
\* the tab id given to tabs.get, the sourceUrl the origin search looks for and
\* the sourceUrl a failure reports are the ones of that record.
C28_ScanKeepsItsRecord ==
    [][\A s \in ScanIds :
          LET before == scans[s]
              after == scans'[s]
          IN /\ (~Started(before) /\ Started(after)) =>
                    after.source = RegisteredNow(after.videoUrl)
             /\ Started(before) => after.source = before.source
             /\ \A i \in CallsOf(after, "tabs.get") :
                    after.calls[i].tab = The(after.source).sourceTabId
             /\ after.sourceUrl # None =>
                    /\ after.source # None
                    /\ after.sourceUrl = Some(The(after.source).sourceUrl)
             /\ \A i \in 1..Len(after.responses) :
                    after.responses[i].sourceUrl # None =>
                        /\ after.source # None
                        /\ after.responses[i].sourceUrl = Some(The(after.source).sourceUrl)]_vars

\* the stored tab was gone and the origin search for the record's sourceUrl is
\* pending, while the registry already holds a record with another sourceUrl
\* and another tab id, written from a tab by PLAY_VIDEO or the context menu
C28_Witness ==
    LET sc == scans[1] IN
    /\ sc.pc = "tabs.query.origin"
    /\ StaleTab(sc)
    /\ sc.sourceUrl = Some(U_gabp)
    /\ videoSourceMap[V_b].sourceUrl = U_abp
    /\ videoSourceMap[V_b].sourceTabId # The(sc.source).sourceTabId

-----------------------------------------------------------------------------
(* Text as src/src/lib/episodeParser.ts handles it.  A string is a         *)
(* sequence of characters, a character a string of length one.             *)

Uppers == <<"A", "B", "C", "D", "E", "F", "G", "H", "I", "J", "K", "L", "M",
            "N", "O", "P", "Q", "R", "S", "T", "U", "V", "W", "X", "Y", "Z">>
Lowers == <<"a", "b", "c", "d", "e", "f", "g", "h", "i", "j", "k", "l", "m",
            "n", "o", "p", "q", "r", "s", "t", "u", "v", "w", "x", "y", "z">>
DigitChars == <<"0", "1", "2", "3", "4", "5", "6", "7", "8", "9">>

\* \d
Digit == {DigitChars[i] : i \in 1..10}
\* \s, the whitespace the model's inputs can hold
Whitespace == {" "}
\* [\s._-]
Separator == Whitespace \cup {".", "_", "-"}

\* one character of String.prototype.toLowerCase / toUpperCase
LowerChar(c) ==
    IF \E i \in 1..26 : Uppers[i] = c THEN Lowers[CHOOSE i \in 1..26 : Uppers[i] = c] ELSE c
UpperChar(c) ==
    IF \E i \in 1..26 : Lowers[i] = c THEN Uppers[CHOOSE i \in 1..26 : Lowers[i] = c] ELSE c

\* String.prototype.toLowerCase
ToLowerCase(s) == [i \in 1..Len(s) |-> LowerChar(s[i])]

\* String.prototype.trim
Trim(s) ==
    LET kept == {i \in 1..Len(s) : s[i] \notin Whitespace} IN
    IF kept = {} THEN <<>>
    ELSE SubSeq(s, CHOOSE i \in kept : \A j \in kept : i <= j,
                   CHOOSE i \in kept : \A j \in kept : i >= j)

\* String.prototype.indexOf, counted from 1; 0 when sub does not occur
IndexOf(s, sub) ==
    LET at == {p \in 1..(Len(s) - Len(sub) + 1) : SubSeq(s, p, p + Len(sub) - 1) = sub} IN
    IF at = {} THEN 0 ELSE CHOOSE p \in at : \A q \in at : p <= q

\* String.prototype.includes
Includes(s, sub) == \E p \in 1..(Len(s) - Len(sub) + 1) : SubSeq(s, p, p + Len(sub) - 1) = sub

\* s.replace(/[cs]+/g, by): every maximal run of characters of cs becomes by
RECURSIVE ReplaceRuns(_, _, _)
ReplaceRuns(s, cs, by) ==
    IF s = <<>> THEN <<>>
    ELSE IF s[1] \notin cs THEN <<s[1]>> \o ReplaceRuns(Tail(s), cs, by)
    ELSE IF Len(s) > 1 /\ s[2] \in cs THEN ReplaceRuns(Tail(s), cs, by)
    ELSE by \o ReplaceRuns(Tail(s), cs, by)

\* parseInt(s, 10) of a string of decimal digits
DigitValue(c) == (CHOOSE i \in 1..10 : DigitChars[i] = c) - 1
RECURSIVE ParseInt(_)
ParseInt(s) ==
    IF s = <<>> THEN 0
    ELSE 10 * ParseInt(SubSeq(s, 1, Len(s) - 1)) + DigitValue(s[Len(s)])

\* String(n) of an integer
RECURSIVE NumberToString(_)
NumberToString(n) ==
    IF n < 0 THEN <<"-">> \o NumberToString(-n)
    ELSE IF n < 10 THEN <<DigitChars[n + 1]>>
    ELSE NumberToString(n \div 10) \o <<DigitChars[(n % 10) + 1]>>

\* s.padStart(width, '0')
RECURSIVE PadStart(_, _)
PadStart(s, width) == IF Len(s) >= width THEN s ELSE PadStart(<<"0">> \o s, width)

\* what is left of s after the last "/": pathname.split('/').pop()
LastSegment(s) ==
    LET slashes == {i \in 1..Len(s) : s[i] = "/"} IN
    IF slashes = {} THEN s
    ELSE SubSeq(s, (CHOOSE i \in slashes : \A j \in slashes : i >= j) + 1, Len(s))

-----------------------------------------------------------------------------
(* Percent-encoding: what new URL does to a path and decodeURIComponent    *)
(* undoes.                                                                 *)

\* the printable ASCII characters, code 32 to 126
Ascii ==
    <<" ", "!", "\"", "#", "$", "%", "&", "'", "(", ")", "*", "+", ",", "-", ".", "/",
      "0", "1", "2", "3", "4", "5", "6", "7", "8", "9", ":", ";", "<", "=", ">", "?",
      "@", "A", "B", "C", "D", "E", "F", "G", "H", "I", "J", "K", "L", "M", "N", "O",
      "P", "Q", "R", "S", "T", "U", "V", "W", "X", "Y", "Z", "[", "\\", "]", "^", "_",
      "backtick", "a", "b", "c", "d", "e", "f", "g", "h", "i", "j", "k", "l", "m", "n", "o",
      "p", "q", "r", "s", "t", "u", "v", "w", "x", "y", "z", "{", "|", "}", "~">>

HexChars == <<"0", "1", "2", "3", "4", "5", "6", "7", "8", "9", "a", "b", "c", "d", "e", "f">>
IsHex(c) == \E i \in 1..16 : HexChars[i] = LowerChar(c)
HexValue(c) == (CHOOSE i \in 1..16 : HexChars[i] = LowerChar(c)) - 1

\* the path of a parsed URL: a space is written %20
RECURSIVE EncodePath(_)
EncodePath(s) ==
    IF s = <<>> THEN <<>>
    ELSE (IF s[1] = " " THEN <<"%", "2", "0">> ELSE <<s[1]>>) \o EncodePath(Tail(s))

\* the byte an escape %XY at position p stands for, -1 when there is no escape there
EscapeAt(s, p) ==
    IF p + 2 <= Len(s) /\ s[p] = "%" /\ IsHex(s[p + 1]) /\ IsHex(s[p + 2])
    THEN 16 * HexValue(s[p + 1]) + HexValue(s[p + 2])
    ELSE -1

\* the number of escapes a UTF-8 sequence starting with this byte takes, 0 when
\* the byte cannot start one
Utf8Length(byte) ==
    IF byte < 128 THEN 1
    ELSE IF byte >= 194 /\ byte <= 223 THEN 2
    ELSE IF byte >= 224 /\ byte <= 239 THEN 3
    ELSE IF byte >= 240 /\ byte <= 244 THEN 4
    ELSE 0

\* the character of one decoded sequence; characters outside printable ASCII
\* are told apart from those only
DecodedChar(byte) ==
    IF byte >= 32 /\ byte <= 126 THEN Ascii[byte - 31]
    ELSE IF byte < 128 THEN "control"
    ELSE "non-ascii"

\* decodeURIComponent: [threw |-> TRUE] for URIError, else the decoded text
RECURSIVE DecodeURIComponent(_)
DecodeURIComponent(s) ==
    IF s = <<>> THEN [threw |-> FALSE, text |-> <<>>]
    ELSE IF s[1] # "%"
    THEN LET rest == DecodeURIComponent(Tail(s)) IN
         IF rest.threw THEN rest ELSE [threw |-> FALSE, text |-> <<s[1]>> \o rest.text]
    ELSE LET byte == EscapeAt(s, 1)
             n == IF byte < 0 THEN 0 ELSE Utf8Length(byte)
         IN IF n = 0 \/ \E k \in 1..(n - 1) :
                           EscapeAt(s, 3 * k + 1) < 128 \/ EscapeAt(s, 3 * k + 1) > 191
            THEN [threw |-> TRUE, text |-> <<>>]
            ELSE LET rest == DecodeURIComponent(SubSeq(s, 3 * n + 1, Len(s))) IN
                 IF rest.threw THEN rest
                 ELSE [threw |-> FALSE, text |-> <<DecodedChar(byte)>> \o rest.text]

-----------------------------------------------------------------------------
(* Regular expressions.  A pattern is a sequence of alternatives tried in  *)
(* order at each start position; an alternative is a sequence of items, an *)
(* item a character class with a greedy repetition min..max (max = -1 for  *)
(* no upper limit).  orEnd makes an item also match the end of the text    *)
(* without consuming anything: (?:[class]|$).  groups names the items that *)
(* are capture groups 1, 2, ...                                            *)

Item(chars, min, max) == [chars |-> chars, min |-> min, max |-> max, orEnd |-> FALSE]
One(chars) == Item(chars, 1, 1)
ItemOrEnd(chars) == [chars |-> chars, min |-> 1, max |-> 1, orEnd |-> TRUE]

\* a literal character; both cases when the pattern ignores case
Literal(c, ignoreCase) == One(IF ignoreCase THEN {LowerChar(c), UpperChar(c)} ELSE {c})
Word(w, ignoreCase) == [i \in 1..Len(w) |-> Literal(w[i], ignoreCase)]

Alternative(items, groups) ==
    [items |-> items, groups |-> groups, atStart |-> FALSE, atEnd |-> FALSE]

\* the longest run of characters of the item's class at position p
Run(it, s, p) ==
    LET limit == IF it.max < 0 \/ it.max > Len(s) - p + 1 THEN Len(s) - p + 1 ELSE it.max
        fits(n) == \A i \in 0..(n - 1) : s[p + i] \in it.chars
    IN CHOOSE n \in 0..limit : fits(n) /\ (n = limit \/ ~fits(n + 1))

\* the items from the k-th on match at position p: the lengths they take, the
\* first found by backtracking; TryLengths tries the k-th item with n
\* characters, then with fewer, at last as the end of the text
RECURSIVE MatchItems(_, _, _, _), TryLengths(_, _, _, _, _)
MatchItems(alt, k, s, p) ==
    IF k > Len(alt.items)
    THEN IF alt.atEnd /\ p # Len(s) + 1 THEN None ELSE Some(<<>>)
    ELSE TryLengths(alt, k, s, p, Run(alt.items[k], s, p))

TryLengths(alt, k, s, p, n) ==
    IF n >= alt.items[k].min
    THEN LET rest == MatchItems(alt, k + 1, s, p + n) IN
         IF rest # None THEN Some(<<n>> \o The(rest)) ELSE TryLengths(alt, k, s, p, n - 1)
    ELSE IF alt.items[k].orEnd /\ p = Len(s) + 1
    THEN LET rest == MatchItems(alt, k + 1, s, p) IN
         IF rest # None THEN Some(<<0>> \o The(rest)) ELSE None
    ELSE None

MatchAt(alt, s, p) ==
    IF alt.atStart /\ p # 1 THEN None ELSE MatchItems(alt, 1, s, p)

RECURSIVE SumTo(_, _)
SumTo(lengths, k) == IF k = 0 THEN 0 ELSE SumTo(lengths, k - 1) + lengths[k]

\* the text of one match: where it starts, the whole match, the capture groups
Matched(alt, s, p, lengths) ==
    [index |-> p,
     all |-> SubSeq(s, p, p + SumTo(lengths, Len(lengths)) - 1),
     group |-> [g \in 1..Len(alt.groups) |->
                   SubSeq(s, p + SumTo(lengths, alt.groups[g] - 1),
                             p + SumTo(lengths, alt.groups[g]) - 1)]]

\* the places <<position, alternative>> where the pattern matches
Hits(pattern, s) ==
    {h \in (1..(Len(s) + 1)) \X (1..Len(pattern)) : MatchAt(pattern[h[2]], s, h[1]) # None}

\* the leftmost of the places, there the first alternative; None when there is none
Leftmost(hits) ==
    IF hits = {} THEN None
    ELSE Some(CHOOSE h \in hits :
                  \A g \in hits : h[1] < g[1] \/ (h[1] = g[1] /\ h[2] <= g[2]))

\* the match at the place found
MatchedAt(pattern, s, first) ==
    IF first = None THEN None
    ELSE Some(Matched(pattern[The(first)[2]], s, The(first)[1],
                      The(MatchAt(pattern[The(first)[2]], s, The(first)[1]))))

\* String.prototype.match without the g flag: the leftmost match, None for null
Match(pattern, s) == MatchedAt(pattern, s, Leftmost(Hits(pattern, s)))

\* RegExp.prototype.test
Test(pattern, s) == Match(pattern, s) # None

\* the index of a match, counted from 1; 0 for no match
IndexOfMatch(m) == IF m = None THEN 0 ELSE The(m).index

\* String.prototype.search
Search(pattern, s) == IndexOfMatch(Match(pattern, s))

-----------------------------------------------------------------------------
(* src/src/lib/constants.ts and the patterns of episodeParser.ts *)

VIDEO_EXTENSIONS ==
    << <<".", "m", "p", "4">>, <<".", "m", "k", "v">>, <<".", "w", "e", "b", "m">>,
       <<".", "a", "v", "i">>, <<".", "m", "o", "v">>, <<".", "m", "4", "v">>,
       <<".", "f", "l", "v">>, <<".", "w", "m", "v">>, <<".", "m", "p", "g">>,
       <<".", "m", "p", "e", "g">>, <<".", "3", "g", "p">>, <<".", "o", "g", "v">> >>

\* /[Ss](\d{1,2})[Ee](\d{1,3})/
SeasonEpisodePattern ==
    << Alternative(<<One({"S", "s"}), Item(Digit, 1, 2), One({"E", "e"}), Item(Digit, 1, 3)>>,
                   <<2, 4>>) >>

\* /[Ss]eason\s*(\d{1,2})\s*[Ee]pisode\s*(\d{1,3})/i
SeasonWordPattern ==
    << Alternative(Word(<<"s", "e", "a", "s", "o", "n">>, TRUE)
                     \o <<Item(Whitespace, 0, -1), Item(Digit, 1, 2), Item(Whitespace, 0, -1)>>
                     \o Word(<<"e", "p", "i", "s", "o", "d", "e">>, TRUE)
                     \o <<Item(Whitespace, 0, -1), Item(Digit, 1, 3)>>,
                   <<8, 18>>) >>

\* /[Ee](?:pisode|p)?[\s._-]*(\d{1,3})/
EpisodeWordPattern ==
    << Alternative(<<One({"E", "e"})>> \o Word(<<"p", "i", "s", "o", "d", "e">>, FALSE)
                     \o <<Item(Separator, 0, -1), Item(Digit, 1, 3)>>, <<9>>),
       Alternative(<<One({"E", "e"}), One({"p"}), Item(Separator, 0, -1), Item(Digit, 1, 3)>>, <<4>>),
       Alternative(<<One({"E", "e"}), Item(Separator, 0, -1), Item(Digit, 1, 3)>>, <<3>>) >>

\* /[\[\(](\d{1,3})[\]\)]/
BracketPattern ==
    << Alternative(<<One({"[", "("}), Item(Digit, 1, 3), One({"]", ")"})>>, <<2>>) >>

\* /[Pp]art[\s._-]*(\d{1,3})/
PartPattern ==
    << Alternative(<<One({"P", "p"})>> \o Word(<<"a", "r", "t">>, FALSE)
                     \o <<Item(Separator, 0, -1), Item(Digit, 1, 3)>>, <<6>>) >>

\* /[\s._-](\d{2,3})(?:[\s._-]|$)/
BareNumberPattern ==
    << Alternative(<<One(Separator), Item(Digit, 2, 3), ItemOrEnd(Separator)>>, <<2>>) >>

EPISODE_PATTERNS ==
    <<SeasonEpisodePattern, SeasonWordPattern, EpisodeWordPattern,
      BracketPattern, PartPattern, BareNumberPattern>>

\* a pattern (w1|w2|...) of words, case ignored
Words(ws) == [i \in 1..Len(ws) |-> Alternative(Word(ws[i], TRUE), <<>>)]

QUALITY_PATTERNS ==
    << << Alternative(<<Item(Digit, 3, 4), Literal("p", TRUE)>>, <<>>) >>,
       Words(<< <<"4", "K">>, <<"U", "H", "D">> >>),
       Words(<< <<"H", "D">>, <<"S", "D">>, <<"F", "H", "D">> >>),
       Words(<< <<"x", "2", "6", "4">>, <<"x", "2", "6", "5">>,
                <<"H", "E", "V", "C">>, <<"A", "V", "C">> >>),
       Words(<< <<"B", "l", "u", "R", "a", "y">>, <<"B", "R", "R", "i", "p">>,
                <<"W", "E", "B", "R", "i", "p">>, <<"H", "D", "T", "V">>,
                <<"D", "V", "D", "R", "i", "p">> >>) >>

-----------------------------------------------------------------------------
(* parseEpisodeInfo *)

\* the loop over VIDEO_EXTENSIONS: the first extension the name ends in is cut off
RECURSIVE removeExtension(_, _)
removeExtension(filename, k) ==
    IF k > Len(VIDEO_EXTENSIONS) THEN filename
    ELSE IF EndsWith(ToLowerCase(filename), VIDEO_EXTENSIONS[k])
    THEN SubSeq(filename, 1, Len(filename) - Len(VIDEO_EXTENSIONS[k]))
    ELSE removeExtension(filename, k + 1)

\* the first of the patterns from the k-th on that matches, with its match
RECURSIVE firstMatch(_, _, _), firstMatchFrom(_, _, _, _)
firstMatch(patterns, k, s) ==
    IF k > Len(patterns) THEN None
    ELSE firstMatchFrom(patterns, k, s, Match(patterns[k], s))

\* one turn of the loop: match is what the k-th pattern gave
firstMatchFrom(patterns, k, s, match) ==
    IF match # None THEN Some([pattern |-> k, match |-> The(match)])
    ELSE firstMatch(patterns, k + 1, s)

\* match[1] of the quality that was found
qualityOf(found) == IF found = None THEN None ELSE Some(The(found).match.all)

\* the loop over QUALITY_PATTERNS
extractQuality(nameWithoutExt) == qualityOf(firstMatch(QUALITY_PATTERNS, 1, nameWithoutExt))

\* what the S01E01 match m gives: the series name is what stands before it
fromSeasonEpisode(nameWithoutExt, m) ==
    [season |-> Some(ParseInt(m.group[1])),
     episode |-> Some(ParseInt(m.group[2])),
     seriesName |-> Trim(SubSeq(nameWithoutExt, 1, IndexOf(nameWithoutExt, m.all) - 1))]

\* idx > 0 ? nameWithoutExt.substring(0, idx).trim() : '', idx counted from 1 here
nameBefore(nameWithoutExt, idx) ==
    IF idx > 1 THEN Trim(SubSeq(nameWithoutExt, 1, idx - 1)) ELSE <<>>

\* what the match of one of the other patterns gives: match[1] is the episode
fromOtherPattern(nameWithoutExt, found) ==
    [season |-> None,
     episode |-> Some(ParseInt(found.match.group[1])),
     seriesName |-> nameBefore(nameWithoutExt,
                               Search(EPISODE_PATTERNS[found.pattern], nameWithoutExt))]

\* season, episode and the raw series name from the S01E01 match and, without
\* one, from the first other pattern that matched
episodeFrom(nameWithoutExt, seasonEpMatch, other) ==
    IF seasonEpMatch # None THEN fromSeasonEpisode(nameWithoutExt, The(seasonEpMatch))
    ELSE IF other # None THEN fromOtherPattern(nameWithoutExt, The(other))
    ELSE [season |-> None, episode |-> None, seriesName |-> <<>>]

\* variant of extractEpisode that gives up the precedence of S01E01: a bare
\* number anywhere in the name is taken for the episode before the token
extractEpisodeBareFirst(nameWithoutExt) ==
    episodeFrom(nameWithoutExt,
                IF Match(BareNumberPattern, nameWithoutExt) # None THEN None
                ELSE Match(SeasonEpisodePattern, nameWithoutExt),
                firstMatch(EPISODE_PATTERNS, Len(EPISODE_PATTERNS), nameWithoutExt))

\* season, episode and the raw series name: S01E01 first, then the other patterns
extractEpisode(nameWithoutExt) ==
    episodeFrom(nameWithoutExt,
                Match(SeasonEpisodePattern, nameWithoutExt),
                firstMatch(EPISODE_PATTERNS, 2, nameWithoutExt))

UnknownSeries == <<"U", "n", "k", "n", "o", "w", "n", " ", "S", "e", "r", "i", "e", "s">>

\* the clean-up of the series name
cleanSeriesName(seriesName) ==
    LET cleaned == Trim(ReplaceRuns(ReplaceRuns(seriesName, {".", "_", "-"}, <<" ">>),
                                    Whitespace, <<" ">>))
    IN IF cleaned = <<>> THEN UnknownSeries ELSE cleaned

\* the title template
episodeTitle(seriesName, season, episode) ==
    seriesName
        \o (IF TruthyNum(season) THEN <<" ", "S">> \o PadStart(NumberToString(The(season)), 2) ELSE <<>>)
        \o <<"E">> \o PadStart(NumberToString(episode), 2)

\* the end of the try block: null without an episode, else the EpisodeInfo
episodeInfo(url, filename, quality, found) ==
    LET seriesName == cleanSeriesName(found.seriesName) IN
    IF found.episode = None THEN [threw |-> FALSE, value |-> None]
    ELSE [threw |-> FALSE,
          value |-> Some([url |-> url,
                          title |-> episodeTitle(seriesName, found.season, The(found.episode)),
                          seriesName |-> seriesName,
                          season |-> found.season,
                          episode |-> The(found.episode),
                          quality |-> quality,
                          originalFilename |-> filename])]

\* the try block from the file name on
parseFilename(url, filename, nameWithoutExt) ==
    episodeInfo(url, filename, extractQuality(nameWithoutExt), extractEpisode(nameWithoutExt))

\* the try block from the decoded path on: decodeURIComponent may have thrown
parseDecoded(url, decoded) ==
    IF decoded.threw THEN [threw |-> TRUE, value |-> None]
    ELSE parseFilename(url, LastSegment(decoded.text),
                       removeExtension(LastSegment(decoded.text), 1))

\* the body of the try block: threw when an exception leaves it
parseEpisodeInfoTry(url) ==
    IF ~URLValid(url) THEN [threw |-> TRUE, value |-> None]
    ELSE parseDecoded(url, DecodeURIComponent(EncodePath(URLParse(url).pathname)))

\* catch { return null }
caught(outcome) == IF outcome.threw THEN [threw |-> FALSE, value |-> None] ELSE outcome

\* variant of parseEpisodeInfo without the catch
parseEpisodeInfoUncaught(url) == parseEpisodeInfoTry(url)

\* parseEpisodeInfo: try { ... } catch { return null }
parseEpisodeInfo(url) == caught(parseEpisodeInfoTry(url))

-----------------------------------------------------------------------------
(* Calls of parseEpisodeInfo *)

\* the longest file name, in tokens
MaxTokens == 3

Str_S01 == <<"S", "0", "1">>
Str_s0 == <<"s", "0">>
Str_E02 == <<"E", "0", "2">>
Str_07 == <<"_", "0", "7">>
Str_clip == <<"c", "l", "i", "p">>
Str_720p == <<"7", "2", "0", "p">>
Str_mp4 == <<".", "m", "p", "4">>
Str_bracket == <<"[", "3", "]">>
Str_Part == <<"P", "a", "r", "t", " ", "4">>

\* the pieces file names are made of
NameTokens ==
    {Str_S01, Str_s0, Str_E02, Str_07, Str_clip, Str_720p, Str_mp4,
     Str_bracket, Str_Part, <<"%">>, <<"/">>}

RECURSIVE Concat(_)
Concat(ts) == IF ts = <<>> THEN <<>> ELSE Head(ts) \o Concat(Tail(ts))

FileNames == {Concat(ts) : ts \in UNION {[1..n -> NameTokens] : n \in 0..MaxTokens}}

UrlBase == <<"h", ":", "/", "/", "b", "/">>

\* file names that spell season and episode out
File_SeasonWords == <<"S", "e", "a", "s", "o", "n", " ", "2", " ">> \o <<"E", "p", "i", "s", "o", "d", "e", " ", "5">>
File_seasonwords == <<"a", "_", "s", "e", "a", "s", "o", "n", "1">> \o <<"e", "p", "i", "s", "o", "d", "e", "3">> \o Str_mp4

\* URLs of files, and strings that are no URL
ParseUrls ==
    {UrlBase \o n : n \in FileNames \cup {File_SeasonWords, File_seasonwords}} \cup NameTokens

ParseCall(url) == [fn |-> "parseEpisodeInfo", url |-> url, pc |-> "called", result |-> None]

\* the call c after it ended with this outcome
ended(c, outcome) ==
    [c EXCEPT !.pc = IF outcome.threw THEN "thrown" ELSE "returned", !.result = outcome.value]

ParseEpisodeInfo ==
    /\ call.fn = "parseEpisodeInfo" /\ call.pc = "called"
    /\ call' = ended(call, parseEpisodeInfo(call.url))
    /\ UNCHANGED <<videoSourceMap, tabs, nextTabId, scans, lastRegistered, getResponse>>

InitPure ==
    /\ videoSourceMap = EmptyMap
    /\ tabs = <<>>
    /\ nextTabId = 0
    /\ scans = [s \in ScanIds |-> IdleScan]
    /\ lastRegistered = EmptyMap
    /\ getResponse = None

InitParse == InitPure /\ call \in {ParseCall(u) : u \in ParseUrls}

NextParse == ParseEpisodeInfo

SpecParse == InitParse /\ [][NextParse]_vars

-----------------------------------------------------------------------------
(* Properties of parseEpisodeInfo *)

\* new URL or decodeURIComponent rejects the string
Malformed(url) ==
    \/ ~URLValid(url)
    \/ DecodeURIComponent(EncodePath(URLParse(url).pathname)).threw

\* the decoded last path segment of a URL that is not malformed
FileNameOf(url) == LastSegment(DecodeURIComponent(EncodePath(URLParse(url).pathname)).text)

Returned(fn) == call.fn = fn /\ call.pc = "returned"

\* an S<sd digits>E<ed digits> token stands at position p of s
IsTokenAt(s, p, sd, ed) ==
    /\ p + sd + 1 + ed <= Len(s)
    /\ s[p] \in {"S", "s"}
    /\ \A i \in 1..sd : s[p + i] \in Digit
    /\ s[p + sd + 1] \in {"E", "e"}
    /\ \A i \in 1..ed : s[p + sd + 1 + i] \in Digit

SeasonEpisodeTokens(s) ==
    {t \in (1..Len(s)) \X (1..2) \X (1..3) : IsTokenAt(s, t[1], t[2], t[3])}

\* the first token of s, with all the digits it has
FirstToken(s) ==
    CHOOSE t \in SeasonEpisodeTokens(s) :
        \A u \in SeasonEpisodeTokens(s) : t[1] < u[1] \/ (t[1] = u[1] /\ t[3] >= u[3])

\* C13: when the file name holds an S<1-2 digits>E<1-3 digits> token, in any
\* letter case, parseEpisodeInfo returns the season and the episode written in
\* the (first) token, whatever quality tokens or bare numbers stand elsewhere
\* in the name; a result has a season only when the name holds such a token,
\* the looser patterns never supply one.
C13_SeasonEpisodeTokenFirst ==
    (Returned("parseEpisodeInfo") /\ ~Malformed(call.url)) =>
        LET name == FileNameOf(call.url) IN
        /\ SeasonEpisodeTokens(name) # {} =>
              LET t == FirstToken(name) IN
              /\ call.result # None
              /\ The(call.result).season =
                     Some(ParseInt(SubSeq(name, t[1] + 1, t[1] + t[2])))
              /\ The(call.result).episode =
                     ParseInt(SubSeq(name, t[1] + t[2] + 2, t[1] + t[2] + 1 + t[3]))
        /\ SeasonEpisodeTokens(name) = {} =>
              (call.result # None => The(call.result).season = None)

\* a name with the token S01E02, a bare number after it and an extension
\* was parsed as season 1, episode 2
C13_Witness ==
    /\ Returned("parseEpisodeInfo")
    /\ call.url = UrlBase \o Str_S01 \o Str_E02 \o Str_07
    /\ call.result # None
    /\ The(call.result).season = Some(1)
    /\ The(call.result).episode = 2

\* C14: the title of every ParsedEpisode is seriesName + ' S' + season in two
\* digits + 'E' + episode in two digits when a season was parsed, season 0
\* included, and seriesName + ' E' + episode in two digits when none was.
C14_Title ==
    (Returned("parseEpisodeInfo") /\ call.result # None) =>
        LET r == The(call.result) IN
        r.title = r.seriesName
                    \o (IF r.season # None
                        THEN <<" ", "S">> \o PadStart(NumberToString(The(r.season)), 2)
                             \o <<"E">>
                        ELSE <<" ", "E">>)
                    \o PadStart(NumberToString(r.episode), 2)

\* C15: parseEpisodeInfo never throws; it returns null exactly when the URL
\* is malformed or none of the episode patterns matches the file name (the
\* name without its video extension), and every result has an episode number.
C15_NullExactlyWhenNoEpisode ==
    call.fn = "parseEpisodeInfo" =>
        /\ call.pc # "thrown"
        /\ call.pc = "returned" =>
             /\ call.result = None <=>
                  \/ Malformed(call.url)
                  \/ \A k \in 1..Len(EPISODE_PATTERNS) :
                         ~Test(EPISODE_PATTERNS[k], removeExtension(FileNameOf(call.url), 1))
             /\ call.result # None => The(call.result).episode \in Nat

\* null came back for a string that is no URL: new URL threw, the catch returned
C15_Witness == Returned("parseEpisodeInfo") /\ call.url = Str_E02 /\ call.result = None

\* a file name in lower case that spells out season s and episode e: season s
\* episode e, with or without the spaces, behind a series name or nothing
SpellsOut(name, s, e) ==
    \E before \in {<<>>, <<"a", "_">>}, x, y, z \in {<<>>, <<" ">>} :
        name = before \o <<"s", "e", "a", "s", "o", "n">> \o x \o NumberToString(s) \o y
                \o <<"e", "p", "i", "s", "o", "d", "e">> \o z \o NumberToString(e)

\* C29: from a file name of the form Season s Episode e without an SxxExx
\* token parseEpisodeInfo returns the episode e, the number behind Episode.
C29_EpisodeOfSeasonWords ==
    (Returned("parseEpisodeInfo") /\ ~Malformed(call.url)) =>
        LET name == ToLowerCase(removeExtension(FileNameOf(call.url), 1)) IN
        \A s, e \in 0..9 :
            SpellsOut(name, s, e) => (call.result # None /\ The(call.result).episode = e)

-----------------------------------------------------------------------------
(* levenshteinSimilarity.  A score is the fraction num / den: the code     *)
(* computes 1 - distance / maxLength in floating point, and the one        *)
(* comparison made with a score, score > 0.8, has the same outcome for the *)
(* fraction as for the rounded quotient (1 - 1/5 rounds to 0.8 itself).    *)

Score(num, den) == [num |-> num, den |-> den]

\* x > 0.8
Above80(x) == 5 * x.num > 4 * x.den

Min3(x, y, z) == IF x <= y /\ x <= z THEN x ELSE IF y <= z THEN y ELSE z
Max2(x, y) == IF x >= y THEN x ELSE y

\* the matrix of the two loops: matrix[i][j] for the first i characters of b
\* and the first j characters of a
distanceMatrix(a, b) ==
    LET matrix[i \in 0..Len(b), j \in 0..Len(a)] ==
            IF i = 0 THEN j
            ELSE IF j = 0 THEN i
            ELSE IF b[i] = a[j] THEN matrix[i - 1, j - 1]
            ELSE Min3(matrix[i - 1, j - 1] + 1, matrix[i, j - 1] + 1, matrix[i - 1, j] + 1)
    IN matrix

\* variant of levenshteinSimilarity in which replacing a character costs nothing
levenshteinSimilarityFreeReplace(a, b) ==
    IF a = b THEN Score(1, 1)
    ELSE IF Len(a) = 0 \/ Len(b) = 0 THEN Score(0, 1)
    ELSE LET matrix[i \in 0..Len(b), j \in 0..Len(a)] ==
                 IF i = 0 THEN j
                 ELSE IF j = 0 THEN i
                 ELSE IF b[i] = a[j] THEN matrix[i - 1, j - 1]
                 ELSE Min3(matrix[i - 1, j - 1], matrix[i, j - 1] + 1, matrix[i - 1, j] + 1)
             maxLength == Max2(Len(a), Len(b))
         IN Score(maxLength - matrix[Len(b), Len(a)], maxLength)

levenshteinSimilarity(a, b) ==
    IF a = b THEN Score(1, 1)
    ELSE IF Len(a) = 0 \/ Len(b) = 0 THEN Score(0, 1)
    ELSE LET distance == distanceMatrix(a, b)[Len(b), Len(a)]
             maxLength == Max2(Len(a), Len(b))
         IN Score(maxLength - distance, maxLength)

\* the longest string given to levenshteinSimilarity
MaxNameLen == 3

NameChars == {"a", "b"}
Names == UNION {[1..n -> NameChars] : n \in 0..MaxNameLen}

SimilarityCall(a, b) ==
    [fn |-> "levenshteinSimilarity", a |-> a, b |-> b, pc |-> "called", result |-> Score(0, 1)]

LevenshteinSimilarity ==
    /\ call.fn = "levenshteinSimilarity" /\ call.pc = "called"
    /\ call' = [call EXCEPT !.pc = "returned", !.result = levenshteinSimilarity(call.a, call.b)]
    /\ UNCHANGED <<videoSourceMap, tabs, nextTabId, scans, lastRegistered, getResponse>>

InitSimilarity == InitPure /\ call \in {SimilarityCall(a, b) : a \in Names, b \in Names}

NextSimilarity == LevenshteinSimilarity

SpecSimilarity == InitSimilarity /\ [][NextSimilarity]_vars

\* the edit distance of two strings: the least number of insertions, deletions
\* and replacements of one character that turn a into b
RECURSIVE EditDistance(_, _)
EditDistance(a, b) ==
    IF a = <<>> THEN Len(b)
    ELSE IF b = <<>> THEN Len(a)
    ELSE Min3(EditDistance(Tail(a), Tail(b)) + (IF Head(a) = Head(b) THEN 0 ELSE 1),
              EditDistance(Tail(a), b) + 1,
              EditDistance(a, Tail(b)) + 1)

\* the score is 1 - EditDistance(a, b) / max(len(a), len(b))
IsNormalizedDistance(x, a, b) ==
    x.den > 0 /\
    x.num * Max2(Len(a), Len(b)) = (Max2(Len(a), Len(b)) - EditDistance(a, b)) * x.den

\* C16 as claimed: for all a and b the score is 1 - levenshtein(a, b) /
\* max(len(a), len(b)), lies in [0, 1], is 1 when a = b and is 0 whenever
\* either string is empty.
C16_SimilarityAsClaimed ==
    Returned("levenshteinSimilarity") =>
        /\ IsNormalizedDistance(call.result, call.a, call.b)
        /\ 0 <= call.result.num /\ call.result.num <= call.result.den
        /\ call.a = call.b => call.result.num = call.result.den
        /\ (call.a = <<>> \/ call.b = <<>>) => call.result.num = 0

\* C16 amended: the score lies in [0, 1], is 1 when a = b (both empty
\* included), is 0 when exactly one of the strings is empty, and for strings
\* that are not both empty is 1 - levenshtein(a, b) / max(len(a), len(b)).
C16_Similarity ==
    Returned("levenshteinSimilarity") =>
        /\ call.result.den > 0
        /\ 0 <= call.result.num /\ call.result.num <= call.result.den
        /\ call.a = call.b => call.result.num = call.result.den
        /\ ((call.a = <<>>) # (call.b = <<>>)) => call.result.num = 0
        /\ (call.a # <<>> \/ call.b # <<>>) =>
               IsNormalizedDistance(call.result, call.a, call.b)

\* two different strings of one length, one replacement apart, scored 2/3
C16_Witness ==
    /\ Returned("levenshteinSimilarity")
    /\ call.a = <<"a", "b", "a">> /\ call.b = <<"a", "a", "a">>
    /\ call.result = Score(2, 3)

-----------------------------------------------------------------------------
(* findRelatedEpisodes *)

\* seriesName.toLowerCase().replace(/\s+/g, '')
normalizeName(seriesName) == ReplaceRuns(ToLowerCase(seriesName), Whitespace, <<>>)

\* variant of isSameSeries that takes a similarity of 0.8 for the same series
isSameSeriesFrom80(currentParsed, parsed) ==
    LET currentNameNorm == normalizeName(currentParsed.seriesName)
        parsedNameNorm == normalizeName(parsed.seriesName)
        similarity == levenshteinSimilarity(currentNameNorm, parsedNameNorm)
    IN \/ currentNameNorm = parsedNameNorm
       \/ Includes(currentNameNorm, parsedNameNorm)
       \/ Includes(parsedNameNorm, currentNameNorm)
       \/ 5 * similarity.num >= 4 * similarity.den

isSameSeries(currentParsed, parsed) ==
    LET currentNameNorm == normalizeName(currentParsed.seriesName)
        parsedNameNorm == normalizeName(parsed.seriesName)
    IN \/ currentNameNorm = parsedNameNorm
       \/ Includes(currentNameNorm, parsedNameNorm)
       \/ Includes(parsedNameNorm, currentNameNorm)
       \/ Above80(levenshteinSimilarity(currentNameNorm, parsedNameNorm))

\* variant of isSameSeason that asks for the same season, given or not
isSameSeasonOrBothNone(currentParsed, parsed) == currentParsed.season = parsed.season

\* the season check: false when the candidate is skipped
isSameSeason(currentParsed, parsed) ==
    ~(currentParsed.season # None /\ parsed.season # None
        /\ currentParsed.season # parsed.season)

\* variant of isInDirection that lets the reference's own episode number through
isInDirectionOrEqual(direction, currentParsed, parsed) ==
    /\ ~(direction = "next" /\ parsed.episode < currentParsed.episode)
    /\ ~(direction = "previous" /\ parsed.episode > currentParsed.episode)

\* the direction check: false when the candidate is skipped
isInDirection(direction, currentParsed, parsed) ==
    /\ ~(direction = "next" /\ parsed.episode <= currentParsed.episode)
    /\ ~(direction = "previous" /\ parsed.episode >= currentParsed.episode)

\* variant of isSameQuality that tells upper and lower case apart
isSameQualityCaseSensitive(currentParsed, parsed) ==
    ~(TruthyStr(currentParsed.quality) /\ TruthyStr(parsed.quality)
        /\ The(currentParsed.quality) # The(parsed.quality))

\* the quality check: false when the candidate is skipped
isSameQuality(currentParsed, parsed) ==
    ~(TruthyStr(currentParsed.quality) /\ TruthyStr(parsed.quality)
        /\ ToLowerCase(The(currentParsed.quality)) # ToLowerCase(The(parsed.quality)))

\* the body of the loop for one URL and what parseEpisodeInfo made of it: what
\* is pushed to related
pushRelated(currentUrl, currentParsed, url, parsed, direction) ==
    IF url = currentUrl THEN <<>>
    ELSE IF parsed = None THEN <<>>
    ELSE IF ~isSameSeries(currentParsed, The(parsed)) THEN <<>>
    ELSE IF ~isSameSeason(currentParsed, The(parsed)) THEN <<>>
    ELSE IF ~isInDirection(direction, currentParsed, The(parsed)) THEN <<>>
    ELSE IF ~isSameQuality(currentParsed, The(parsed)) THEN <<>>
    ELSE <<The(parsed)>>

\* the loop over allUrls from the k-th on: the episodes pushed to related
RECURSIVE collectRelated(_, _, _, _, _)
collectRelated(currentUrl, currentParsed, allUrls, direction, k) ==
    IF k > Len(allUrls) THEN <<>>
    ELSE pushRelated(currentUrl, currentParsed, allUrls[k],
                     parseEpisodeInfo(allUrls[k]).value, direction)
           \o collectRelated(currentUrl, currentParsed, allUrls, direction, k + 1)

\* the comparator given to sort; a.season || 0
compareEpisodes(a, b) ==
    IF a.season # b.season
    THEN (IF TruthyNum(a.season) THEN The(a.season) ELSE 0)
           - (IF TruthyNum(b.season) THEN The(b.season) ELSE 0)
    ELSE a.episode - b.episode

\* the comparator is a consistent comparator for these elements (ECMAScript,
\* Array.prototype.sort): equality and order under it are transitive
isConsistentComparator(xs) ==
    \A i, j, k \in 1..Len(xs) :
        LET ab == compareEpisodes(xs[i], xs[j])
            bc == compareEpisodes(xs[j], xs[k])
            ac == compareEpisodes(xs[i], xs[k])
        IN /\ (ab = 0 /\ bc = 0) => ac = 0
           /\ (ab < 0 /\ bc < 0) => ac < 0
           /\ (ab > 0 /\ bc > 0) => ac > 0
           /\ (ab = 0) = (compareEpisodes(xs[j], xs[i]) = 0)
           /\ (ab < 0) = (compareEpisodes(xs[j], xs[i]) > 0)

Reorderings(xs) ==
    {[i \in 1..Len(xs) |-> xs[p[i]]] :
        p \in {q \in [1..Len(xs) -> 1..Len(xs)] : \A i, j \in 1..Len(xs) : q[i] = q[j] => i = j}}

\* x put into the sorted list ys behind every element that is not greater
RECURSIVE insertSorted(_, _)
insertSorted(ys, x) ==
    IF ys = <<>> THEN <<x>>
    ELSE IF compareEpisodes(ys[Len(ys)], x) <= 0 THEN Append(ys, x)
    ELSE Append(insertSorted(SubSeq(ys, 1, Len(ys) - 1), x), ys[Len(ys)])

RECURSIVE stableSort(_)
stableSort(xs) ==
    IF xs = <<>> THEN <<>>
    ELSE insertSorted(stableSort(SubSeq(xs, 1, Len(xs) - 1)), xs[Len(xs)])

\* related.sort(comparator): the stable sorted order when the comparator is
\* consistent, else an order the implementation chooses
sortOutcomes(xs) ==
    IF isConsistentComparator(xs) THEN {stableSort(xs)} ELSE Reorderings(xs)

\* findRelatedEpisodes after the reference was parsed: nothing when it is no episode
relatedTo(currentUrl, currentParsed, allUrls, direction) ==
    IF currentParsed = None THEN <<>>
    ELSE collectRelated(currentUrl, The(currentParsed), allUrls, direction, 1)

\* findRelatedEpisodes up to the sort
findRelatedEpisodes(currentUrl, allUrls, direction) ==
    relatedTo(currentUrl, parseEpisodeInfo(currentUrl).value, allUrls, direction)

\* the longest list of candidate URLs
MaxCandidates == 2

File_S01E03 == <<"a", "b", "_">> \o <<"S", "0", "1", "E", "0", "3">>
File_S01E02 == <<"a", "b", "_">> \o <<"S", "0", "1", "E", "0", "2">>
File_S01E04 == <<"A", "b", ".">> \o <<"s", "1", "e", "4">>
File_S02E01 == <<"a", "b", "_">> \o <<"S", "0", "2", "E", "0", "1">>
File_S00E03 == <<"a", "b", "_">> \o <<"S", "0", "0", "E", "0", "3">>
File_03 == <<"a", "b", "_", "0", "3">>
File_04 == <<"a", "b", "_", "0", "4">>
File_05 == <<"a", "b", "_", "0", "5">>
File_other == <<"x", "y", "_">> \o <<"S", "0", "1", "E", "0", "5">>
File_clipOnly == <<"c", "l", "i", "p">>

ReferenceUrls == {UrlBase \o n : n \in {File_S01E03, File_04, File_clipOnly}}
CandidateUrls ==
    {UrlBase \o n : n \in {File_S01E03, File_S01E02, File_S01E04, File_S02E01, File_S00E03,
                            File_03, File_05, File_other}}
Directions == {"next", "previous", "all"}

RelatedCall(currentUrl, allUrls, direction) ==
    [fn |-> "findRelatedEpisodes", currentUrl |-> currentUrl, allUrls |-> allUrls,
     direction |-> direction, pc |-> "called", result |-> <<>>]

FindRelatedEpisodes ==
    /\ call.fn = "findRelatedEpisodes" /\ call.pc = "called"
    /\ \E sorted \in sortOutcomes(findRelatedEpisodes(call.currentUrl, call.allUrls, call.direction)) :
         call' = [call EXCEPT !.pc = "returned", !.result = sorted]
    /\ UNCHANGED <<videoSourceMap, tabs, nextTabId, scans, lastRegistered, getResponse>>

InitRelated ==
    /\ InitPure
    /\ call \in {RelatedCall(c, us, d) :
                   c \in ReferenceUrls,
                   us \in UNION {[1..n -> CandidateUrls] : n \in 0..MaxCandidates},
                   d \in Directions}

NextRelated == FindRelatedEpisodes

SpecRelated == InitRelated /\ [][NextRelated]_vars

-----------------------------------------------------------------------------
(* Properties of findRelatedEpisodes *)

\* the episode number parseEpisodeInfo reads from a URL
EpisodeOf(url) == The(parseEpisodeInfo(url).value).episode

UrlsOf(episodes) == {episodes[i].url : i \in 1..Len(episodes)}

\* C11: with direction 'next' findRelatedEpisodes returns no episode whose
\* number is at most the reference's, with 'previous' none whose number is at
\* least the reference's, and with 'all' it filters by no episode order: what
\* 'next' or 'previous' returns for the same arguments 'all' returns too.
C11_DirectionFilter ==
    Returned("findRelatedEpisodes") =>
        /\ \A i \in 1..Len(call.result) :
             /\ call.direction = "next" =>
                  EpisodeOf(call.result[i].url) > EpisodeOf(call.currentUrl)
             /\ call.direction = "previous" =>
                  EpisodeOf(call.result[i].url) < EpisodeOf(call.currentUrl)
        /\ call.direction = "all" =>
             /\ UrlsOf(findRelatedEpisodes(call.currentUrl, call.allUrls, "next"))
                    \subseteq UrlsOf(call.result)
             /\ UrlsOf(findRelatedEpisodes(call.currentUrl, call.allUrls, "previous"))
                    \subseteq UrlsOf(call.result)

\* asked for the episodes after S01E03, among episode 3 without a season and
\* S01E04: only S01E04 came back
C11_Witness ==
    /\ Returned("findRelatedEpisodes")
    /\ call.direction = "next"
    /\ call.currentUrl = UrlBase \o File_S01E03
    /\ call.allUrls = <<UrlBase \o File_03, UrlBase \o File_S01E04>>
    /\ Len(call.result) = 1
    /\ call.result[1].url = UrlBase \o File_S01E04

\* season ?? 0
SeasonOrZero(e) == IF e.season = None THEN 0 ELSE The(e.season)

\* C12: the list findRelatedEpisodes returns is in ascending order of
\* (season ?? 0, episode): of two adjacent results the first has the smaller
\* season ?? 0, or the same and an episode number that is not greater, also
\* when one has no season and the other season 0.
C12_SortedBySeasonEpisode ==
    Returned("findRelatedEpisodes") =>
        \A i \in 1..(Len(call.result) - 1) :
            LET a == call.result[i]
                b == call.result[i + 1]
            IN \/ SeasonOrZero(a) < SeasonOrZero(b)
               \/ SeasonOrZero(a) = SeasonOrZero(b) /\ a.episode <= b.episode

-----------------------------------------------------------------------------
(* Calls of findRelatedEpisodes that bring out its filters: series names   *)
(* that are equal, contained, near and far, seasons and quality tags that  *)
(* are given or not.                                                       *)

File_ref720 == <<"a", "b", "c", "d", "x", "y", "_">> \o <<"S", "0", "1", "E", "0", "3", "_", "7", "2", "0", "p">>
File_refShort == <<"a", "b", "c", "d", "x", "_">> \o <<"S", "0", "1", "E", "0", "3">>
File_refPlain == <<"a", "b", "c", "d", "x", "y", "_", "0", "3">>

File_720P == <<"a", "b", "c", "d", "x", "y", "_">> \o <<"S", "0", "1", "E", "0", "4", "_", "7", "2", "0", "P">>
File_480p == <<"a", "b", "c", "d", "x", "y", "_">> \o <<"S", "0", "1", "E", "0", "4", "_", "4", "8", "0", "p">>
File_season2 == <<"a", "b", "c", "d", "x", "y", "_">> \o <<"S", "0", "2", "E", "0", "4", "_", "7", "2", "0", "p">>
File_noSeason == <<"a", "b", "c", "d", "x", "y", "_", "0", "4">>
File_near == <<"a", "b", "c", "d", "x", "z", "_">> \o <<"S", "0", "1", "E", "0", "4">>
File_at80 == <<"a", "b", "c", "d", "y", "_">> \o <<"S", "0", "1", "E", "0", "4">>
File_dotted == <<"a", "b", "c", "d", ".", "x", "y", "_">> \o <<"S", "0", "1", "E", "0", "2">>

FilterReferenceUrls == {UrlBase \o n : n \in {File_ref720, File_refShort, File_refPlain}}
FilterCandidateUrls ==
    {UrlBase \o n : n \in {File_720P, File_480p, File_season2, File_noSeason, File_near,
                            File_at80, File_dotted}}

\* the candidates are a page's links as the detector reports them, each URL once
InitFilter ==
    /\ InitPure
    /\ call \in {RelatedCall(c, us, d) :
                   c \in FilterReferenceUrls,
                   us \in {l \in UNION {[1..n -> FilterCandidateUrls] : n \in 0..MaxCandidates} :
                              \A i, j \in 1..Len(l) : l[i] = l[j] => i = j},
                   d \in Directions}

NextFilter == FindRelatedEpisodes

SpecFilter == InitFilter /\ [][NextFilter]_vars

-----------------------------------------------------------------------------
(* Properties of the filters of findRelatedEpisodes *)

\* what parseEpisodeInfo makes of the reference of the call
ReferenceParsed == The(parseEpisodeInfo(call.currentUrl).value)

\* the call returned, and its reference was an episode
ReturnedForEpisode ==
    Returned("findRelatedEpisodes") /\ parseEpisodeInfo(call.currentUrl).value # None

\* the candidates of the call that are episodes and not the reference itself
CandidateEpisodes ==
    UNION {parseEpisodeInfo(call.allUrls[k]).value :
             k \in {j \in 1..Len(call.allUrls) : call.allUrls[j] # call.currentUrl}}

\* both have a season and the two differ
SeasonsDiffer(c, p) == c.season # None /\ p.season # None /\ The(c.season) # The(p.season)

\* C21: findRelatedEpisodes never returns a candidate whose season and the
\* reference's are both given and differ, and season keeps no other candidate
\* out: a candidate that passes the series, direction and quality filters and
\* has no season, or the reference's season, or whose reference has none, is
\* returned.
C21_SeasonFilter ==
    ReturnedForEpisode =>
        LET c == ReferenceParsed IN
        \A p \in CandidateEpisodes :
            /\ SeasonsDiffer(c, p) => p.url \notin UrlsOf(call.result)
            /\ (/\ ~SeasonsDiffer(c, p)
                /\ isSameSeries(c, p)
                /\ isInDirection(call.direction, c, p)
                /\ isSameQuality(c, p))
               => p.url \in UrlsOf(call.result)

\* for abcdxy S01E03 a file of season 2 and one without season were offered:
\* only the one without season came back
C21_Witness ==
    /\ Returned("findRelatedEpisodes")
    /\ call.direction = "all"
    /\ call.currentUrl = UrlBase \o File_ref720
    /\ call.allUrls = <<UrlBase \o File_season2, UrlBase \o File_noSeason>>
    /\ UrlsOf(call.result) = {UrlBase \o File_noSeason}

\* both have a quality tag and the tags differ, case ignored
QualitiesDiffer(c, p) ==
    /\ c.quality # None /\ p.quality # None
    /\ ToLowerCase(The(c.quality)) # ToLowerCase(The(p.quality))

\* C22: among the candidates that pass the series, season and direction
\* filters findRelatedEpisodes leaves out exactly those whose quality tag and
\* the reference's are both given and differ when case is ignored.
C22_QualityFilter ==
    ReturnedForEpisode =>
        LET c == ReferenceParsed IN
        \A p \in CandidateEpisodes :
            /\ QualitiesDiffer(c, p) => p.url \notin UrlsOf(call.result)
            /\ (/\ ~QualitiesDiffer(c, p)
                /\ isSameSeries(c, p)
                /\ isSameSeason(c, p)
                /\ isInDirection(call.direction, c, p))
               => p.url \in UrlsOf(call.result)

\* for abcdxy S01E03 720p a file tagged 720P and one tagged 480p were offered:
\* only the 720P one came back
C22_Witness ==
    /\ Returned("findRelatedEpisodes")
    /\ call.direction = "all"
    /\ call.currentUrl = UrlBase \o File_ref720
    /\ call.allUrls = <<UrlBase \o File_720P, UrlBase \o File_480p>>
    /\ UrlsOf(call.result) = {UrlBase \o File_720P}

\* a name in lower case with its whitespace removed
RECURSIVE WithoutWhitespace(_)
WithoutWhitespace(s) ==
    IF s = <<>> THEN <<>>
    ELSE (IF s[1] \in Whitespace THEN <<>> ELSE <<s[1]>>) \o WithoutWhitespace(Tail(s))

\* the same-series rule on two names: equal, one contains the other, or more
\* than 0.8 similar
SameSeriesNames(a, b) ==
    LET x == WithoutWhitespace(ToLowerCase(a))
        y == WithoutWhitespace(ToLowerCase(b))
    IN \/ x = y
       \/ Includes(x, y)
       \/ Includes(y, x)
       \/ 5 * levenshteinSimilarity(x, y).num > 4 * levenshteinSimilarity(x, y).den

\* C23: every episode findRelatedEpisodes returns has a series name that, in
\* lower case and without whitespace, equals the reference's, contains it, is
\* contained in it, or is more than 0.8 similar to it; 0.8 itself is not enough.
C23_SameSeriesOnly ==
    (Returned("findRelatedEpisodes") /\ call.result # <<>>) =>
        LET c == ReferenceParsed IN
        \A i \in 1..Len(call.result) :
            SameSeriesNames(c.seriesName, call.result[i].seriesName)

\* for abcdx a file of abcdy (similarity 0.8) and one of abcdxz (contains
\* abcdx) were offered: only abcdxz came back
C23_Witness ==
    /\ Returned("findRelatedEpisodes")
    /\ call.direction = "all"
    /\ call.currentUrl = UrlBase \o File_refShort
    /\ call.allUrls = <<UrlBase \o File_at80, UrlBase \o File_near>>
    /\ levenshteinSimilarity(<<"a", "b", "c", "d", "x">>, <<"a", "b", "c", "d", "y">>) = Score(4, 5)
    /\ UrlsOf(call.result) = {UrlBase \o File_near}

-----------------------------------------------------------------------------
(* generateEpisodePattern.  The RegExp it builds is used to test file      *)
(* names; its optional group and its alternation of the three spellings of *)
(* the episode number are written out as alternatives.                     *)

\* /^$/
EmptyStringPattern ==
    << [items |-> <<>>, groups |-> <<>>, atStart |-> TRUE, atEnd |-> TRUE] >>

\* the escaped series name: a run of whitespace stands for [\s._-]*, every
\* other character for itself
RECURSIVE escapedSeriesName(_)
escapedSeriesName(seriesName) ==
    IF seriesName = <<>> THEN <<>>
    ELSE IF seriesName[1] \notin Whitespace
    THEN <<Literal(seriesName[1], TRUE)>> \o escapedSeriesName(Tail(seriesName))
    ELSE IF Len(seriesName) > 1 /\ seriesName[2] \in Whitespace
    THEN escapedSeriesName(Tail(seriesName))
    ELSE <<Item(Separator, 0, -1)>> \o escapedSeriesName(Tail(seriesName))

\* variant of episodeSpellings that knows the bare number only
episodeSpellingsBare(targetEpisode) ==
    <<NumberToString(targetEpisode), NumberToString(targetEpisode), NumberToString(targetEpisode)>>

\* (epStr1|epStr2|epStr3)
episodeSpellings(targetEpisode) ==
    <<NumberToString(targetEpisode),
      PadStart(NumberToString(targetEpisode), 2),
      PadStart(NumberToString(targetEpisode), 3)>>

\* variant of episodeMarker that asks for the E
episodeMarkerRequired == One({"E", "e"})

\* [Ee]? in the pattern of an episode without a season
episodeMarker == Item({"E", "e"}, 0, 1)

\* new RegExp(pattern, 'i') for the target episode
episodePattern(parsed, targetEpisode) ==
    LET name == escapedSeriesName(parsed.seriesName)
        spellings == episodeSpellings(targetEpisode)
    IN IF parsed.season # None
       THEN [i \in 1..3 |->
                Alternative(name \o <<Item(Separator, 0, -1), One({"S", "s"}), Item({"0"}, 0, 1)>>
                                 \o Word(NumberToString(The(parsed.season)), TRUE)
                                 \o <<One({"E", "e"})>>
                                 \o Word(spellings[i], TRUE),
                            <<>>)]
       ELSE [i \in 1..6 |->
                Alternative(name \o <<Item(Separator, 0, -1), episodeMarker>>
                                 \o (IF i <= 3 THEN Word(<<"p", "i", "s", "o", "d", "e">>, TRUE)
                                     ELSE <<>>)
                                 \o <<Item(Separator, 0, -1)>>
                                 \o Word(spellings[((i - 1) % 3) + 1], TRUE),
                            <<>>)]

\* variant of generateEpisodePattern without the test of the target episode
generateEpisodePatternUnguarded(parsed, episodeOffset) ==
    episodePattern(parsed, parsed.episode + episodeOffset)

generateEpisodePattern(parsed, episodeOffset) ==
    LET targetEpisode == parsed.episode + episodeOffset IN
    IF targetEpisode < 1 THEN EmptyStringPattern
    ELSE episodePattern(parsed, targetEpisode)

\* the largest episode offset, forward or backward
MaxOffset == 4

File_S01E00 == <<"a", "b", "_">> \o <<"S", "0", "1", "E", "0", "0">>
File_minus1 == <<"a", "b", "-", "1">>
File_S01E10 == <<"a", "b", "_">> \o <<"S", "0", "1", "E", "1", "0">>
File_ab05 == <<"a", "b", "0", "5">>
File_E05 == <<"a", "b", "_", "E", "0", "5">>
File_Episode5 == <<"A", "b", " ">> \o <<"E", "p", "i", "s", "o", "d", "e", " ", "5">>
File_spaced == <<"a", ".", "b", "_">> \o <<"S", "0", "1", "E", "0", "9">>

\* the episodes a matcher is built from, and the file names it is tried on
PatternEpisodes ==
    {The(parseEpisodeInfo(UrlBase \o n).value) :
        n \in {File_S01E03, File_S01E04, File_04, File_S00E03, File_spaced}}
PatternTexts ==
    {<<>>, File_S01E00, File_minus1, File_S01E03, File_S01E02, File_S01E04, File_S02E01,
     File_S00E03, File_03, File_04, File_05, File_other, File_S01E10, File_ab05,
     File_E05, File_Episode5}

PatternCall(parsed, episodeOffset, text) ==
    [fn |-> "generateEpisodePattern", parsed |-> parsed, episodeOffset |-> episodeOffset,
     text |-> text, pc |-> "called", result |-> <<>>, matched |-> FALSE]

GenerateEpisodePattern ==
    /\ call.fn = "generateEpisodePattern" /\ call.pc = "called"
    /\ call' = [call EXCEPT !.pc = "returned",
                            !.result = generateEpisodePattern(call.parsed, call.episodeOffset)]
    /\ UNCHANGED <<videoSourceMap, tabs, nextTabId, scans, lastRegistered, getResponse>>

\* the caller tries the matcher on a file name: pattern.test(text)
TestPattern ==
    /\ call.fn = "generateEpisodePattern" /\ call.pc = "returned"
    /\ call' = [call EXCEPT !.pc = "tested", !.matched = Test(call.result, call.text)]
    /\ UNCHANGED <<videoSourceMap, tabs, nextTabId, scans, lastRegistered, getResponse>>

InitPattern ==
    /\ InitPure
    /\ call \in {PatternCall(p, o, t) :
                   p \in PatternEpisodes, o \in (-MaxOffset)..MaxOffset, t \in PatternTexts}

NextPattern == GenerateEpisodePattern \/ TestPattern

SpecPattern == InitPattern /\ [][NextPattern]_vars

\* C17: the matcher generateEpisodePattern returns when episode + offset < 1
\* matches no file name: tried on any string that is not empty, it fails.
C17_NoEpisodeBeforeTheFirst ==
    (call.fn = "generateEpisodePattern" /\ call.pc = "tested"
        /\ call.parsed.episode + call.episodeOffset < 1 /\ call.text # <<>>)
    => ~call.matched

\* the matcher for the episode three before S01E03 was tried on ab_S01E00
C17_Witness ==
    /\ call.fn = "generateEpisodePattern" /\ call.pc = "tested"
    /\ call.parsed.url = UrlBase \o File_S01E03
    /\ call.episodeOffset = -3
    /\ call.text = File_S01E00
    /\ ~call.matched

\* the target episode of the call
TargetEpisode == call.parsed.episode + call.episodeOffset

\* the three ways a file name writes an episode number
Spellings(n) == {NumberToString(n), PadStart(NumberToString(n), 2), PadStart(NumberToString(n), 3)}

\* String.prototype.toUpperCase
ToUpperCase(s) == [i \in 1..Len(s) |-> UpperChar(s[i])]

\* the series name with each space written as one separator character
RECURSIVE Written(_)
Written(name) ==
    IF name = <<>> THEN {<<>>}
    ELSE {h \o r : h \in (IF name[1] = " " THEN {<<c>> : c \in Separator} ELSE {<<name[1]>>}),
                   r \in Written(Tail(name))}

\* an episode marker, E or e, stands in the text behind its first character
\* and digits of the episode number n stand behind the marker
MarkerBetween(text, n) ==
    \E i \in 2..Len(text) :
        /\ text[i] \in {"E", "e"}
        /\ \E sp \in Spellings(n), j \in (i + 1)..Len(text) :
               j + Len(sp) - 1 <= Len(text) /\ SubSeq(text, j, j + Len(sp) - 1) = sp

AllSeparators(s, from, to) == \A i \in from..to : s[i] \in Separator

\* s holds w at position p
HoldsAt(s, w, p) == p + Len(w) - 1 <= Len(s) /\ SubSeq(s, p, p + Len(w) - 1) = w

\* the ways to write the optional marker: nothing, e, pisode, episode
Markers ==
    {<<>>, <<"e">>, <<"p", "i", "s", "o", "d", "e">>, <<"e", "p", "i", "s", "o", "d", "e">>}

\* somewhere in the text, case ignored: the series name, separators or none, a
\* marker or none, separators or none, the episode number n in one of its
\* spellings
HoldsEpisodeForm(text, seriesName, n) ==
    LET s == ToLowerCase(text) IN
    \E w \in Written(ToLowerCase(seriesName)), m \in Markers, d \in Spellings(n) :
        \E i, j, k \in 1..(Len(s) + 1) :
            /\ HoldsAt(s, w, i)
            /\ i + Len(w) <= j /\ AllSeparators(s, i + Len(w), j - 1)
            /\ HoldsAt(s, m, j)
            /\ j + Len(m) <= k /\ AllSeparators(s, j + Len(m), k - 1)
            /\ HoldsAt(s, d, k)

SeasonEpisodeNames(seriesName, season, n) ==
    {w \o <<"S">> \o s \o <<"E">> \o e :
        w \in Written(seriesName),
        s \in {NumberToString(season), PadStart(NumberToString(season), 2)},
        e \in Spellings(n)}

\* C25: built from an episode with a season for a target episode of at least
\* 1, the matcher of generateEpisodePattern matches every file name made of
\* the series name, its spaces written as separators, followed at once by
\* S<season>E<target> with the target bare or padded to two or three digits,
\* in upper and in lower case alike.
C25_MatchesSeasonEpisode ==
    (/\ call.fn = "generateEpisodePattern" /\ call.pc = "returned"
     /\ call.parsed.season # None
     /\ TargetEpisode >= 1)
    => \A t \in SeasonEpisodeNames(call.parsed.seriesName, The(call.parsed.season), TargetEpisode) :
           /\ Test(call.result, t)
           /\ Test(call.result, ToLowerCase(t))
           /\ Test(call.result, ToUpperCase(t))

\* the matcher for the episode after "a b" S01E09 was built: it matches
\* a-bS1E010 and A_BS01E10
C25_Witness ==
    /\ call.fn = "generateEpisodePattern" /\ call.pc = "returned"
    /\ call.parsed.seriesName = <<"a", " ", "b">>
    /\ call.parsed.season = Some(1)
    /\ TargetEpisode = 10
    /\ Test(call.result, <<"a", "-", "b", "S", "1", "E", "0", "1", "0">>)
    /\ Test(call.result, <<"A", "_", "B", "S", "0", "1", "E", "1", "0">>)

\* the text is the file name of another episode of the series and season of
\* the call
OtherEpisodeOfSeason ==
    LET p == parseEpisodeInfo(UrlBase \o call.text).value IN
    /\ p # None
    /\ WithoutWhitespace(ToLowerCase(The(p).seriesName))
         = WithoutWhitespace(ToLowerCase(call.parsed.seriesName))
    /\ The(p).season = call.parsed.season
    /\ The(p).episode # TargetEpisode

\* C30: the matcher generateEpisodePattern builds for a target episode does
\* not match the file name of an episode of the same series and season with
\* another episode number.
C30_OtherEpisodesNotMatched ==
    (/\ call.fn = "generateEpisodePattern" /\ call.pc = "tested"
     /\ TargetEpisode >= 1
     /\ OtherEpisodeOfSeason)
    => ~call.matched

-----------------------------------------------------------------------------
(* The in-page detector of src/src/lib/tmdb.ts: findVideoLinksWithInfo     *)
(* over the anchors of the page.  An anchor is its href, the absolute URL  *)
(* the browser gives for it; the text around an anchor is copied into the  *)
(* result and decides nothing, it is left out.                             *)

\* the content script's own list
DetectorExtensions ==
    << <<".", "m", "p", "4">>, <<".", "m", "k", "v">>, <<".", "w", "e", "b", "m">>,
       <<".", "a", "v", "i">>, <<".", "m", "o", "v">>, <<".", "m", "4", "v">>,
       <<".", "f", "l", "v">>, <<".", "w", "m", "v">>, <<".", "m", "p", "g">>,
       <<".", "m", "p", "e", "g">>, <<".", "3", "g", "p">>, <<".", "o", "g", "v">> >>

\* variant of isVideoUrl that does not lower the case of the path
isVideoUrlCaseSensitive(url) ==
    /\ URLValid(url)
    /\ \E k \in 1..Len(DetectorExtensions) :
           EndsWith(URLParse(url).pathname, DetectorExtensions[k])

\* isVideoUrl: false when new URL throws
isVideoUrl(url) ==
    /\ URLValid(url)
    /\ \E k \in 1..Len(DetectorExtensions) :
           EndsWith(ToLowerCase(URLParse(url).pathname), DetectorExtensions[k])

\* the decoded path, or nothing when decodeURIComponent throws
decodedOrEmpty(decoded) == IF decoded.threw THEN <<>> ELSE LastSegment(decoded.text)

\* extractFilename: '' when new URL or decodeURIComponent throws
extractFilename(url) ==
    IF ~URLValid(url) THEN <<>>
    ELSE decodedOrEmpty(DecodeURIComponent(EncodePath(URLParse(url).pathname)))

\* the forEach over the anchors from the k-th on: what is pushed to videoLinks
RECURSIVE collectVideoLinks(_, _, _)
collectVideoLinks(anchors, k, seenUrls) ==
    IF k > Len(anchors) THEN <<>>
    ELSE IF ~isVideoUrl(anchors[k]) THEN collectVideoLinks(anchors, k + 1, seenUrls)
    ELSE IF anchors[k] \in seenUrls THEN collectVideoLinks(anchors, k + 1, seenUrls)
    ELSE <<[url |-> anchors[k], filename |-> extractFilename(anchors[k])]>>
           \o collectVideoLinks(anchors, k + 1, seenUrls \cup {anchors[k]})

findVideoLinksWithInfo(anchors) == collectVideoLinks(anchors, 1, {})

\* the largest number of anchors on a page
MaxAnchors == 3

Href_mp4 == UrlBase \o <<"v", ".", "m", "p", "4">>
Href_MP4 == UrlBase \o <<"v", ".", "M", "P", "4">>
Href_query == UrlBase \o <<"v", ".", "m", "p", "4", "?", "t">>
Href_page == UrlBase \o <<"p">>
Href_host == <<"h", ":", "/", "/", "v", ".", "m", "p", "4">>
Href_bad == <<"b", "/", "v", ".", "m", "p", "4">>

Hrefs == {Href_mp4, Href_MP4, Href_query, Href_page, Href_host, Href_bad}

LinksCall(anchors) ==
    [fn |-> "findVideoLinksWithInfo", anchors |-> anchors, pc |-> "called", result |-> <<>>]

\* the SCAN_FOR_EPISODES case of the listener: allLinks = findVideoLinksWithInfo()
FindVideoLinksWithInfo ==
    /\ call.fn = "findVideoLinksWithInfo" /\ call.pc = "called"
    /\ call' = [call EXCEPT !.pc = "returned", !.result = findVideoLinksWithInfo(call.anchors)]
    /\ UNCHANGED <<videoSourceMap, tabs, nextTabId, scans, lastRegistered, getResponse>>

InitLinks ==
    /\ InitPure
    /\ call \in {LinksCall(as) : as \in UNION {[1..n -> Hrefs] : n \in 0..MaxAnchors}}

NextLinks == FindVideoLinksWithInfo

SpecLinks == InitLinks /\ [][NextLinks]_vars

\* the href is a URL whose path ends, case ignored, in a video extension
PathEndsInExtension(href) ==
    /\ URLValid(href)
    /\ \E k \in 1..Len(VIDEO_EXTENSIONS) :
           EndsWith(ToLowerCase(URLParse(href).pathname), ToLowerCase(VIDEO_EXTENSIONS[k]))

\* the place of the first anchor with this href
FirstAnchor(href) ==
    CHOOSE i \in 1..Len(call.anchors) :
        call.anchors[i] = href /\ \A j \in 1..(i - 1) : call.anchors[j] # href

\* C26: the list the detector returns holds exactly the hrefs of the page
\* whose path ends, case ignored, in a known video extension, each once, in
\* the order of their first anchors.
C26_VideoLinksOnce ==
    Returned("findVideoLinksWithInfo") =>
        /\ \A i \in 1..Len(call.result) : PathEndsInExtension(call.result[i].url)
        /\ \A i, j \in 1..Len(call.result) : call.result[i].url = call.result[j].url => i = j
        /\ {call.result[i].url : i \in 1..Len(call.result)}
             = {call.anchors[i] : i \in {j \in 1..Len(call.anchors) :
                                            PathEndsInExtension(call.anchors[j])}}
        /\ \A i, j \in 1..Len(call.result) :
               i < j => FirstAnchor(call.result[i].url) < FirstAnchor(call.result[j].url)

\* a page with the anchors v.MP4, v.mp4, v.MP4 again: the list is v.MP4, v.mp4
C26_Witness ==
    /\ Returned("findVideoLinksWithInfo")
    /\ call.anchors = <<Href_MP4, Href_mp4, Href_MP4>>
    /\ Len(call.result) = 2
    /\ call.result[1].url = Href_MP4
    /\ call.result[2].url = Href_mp4

====
